---- MODULE Spec2Model ----
(***************************************************************************)
(* Encircle: end-to-end encrypted messaging client.                        *)
(*                                                                         *)
(* The model covers the client's key exchange (utils/keyExchange.js), the  *)
(* message cipher (utils/crypto.js), the IndexedDB session store and       *)
(* replay guard (utils/storage.js), the key-exchange hook                  *)
(* (hooks/useKeyExchange.js) and the chat component's send and receive     *)
(* handlers (components/Chat.js).                                          *)
(*                                                                         *)
(* Strings that the code builds by concatenation (store keys such as       *)
(* `seq_${id}`) are tuples of tokens, JSON strings are tuples or records   *)
(* with explicit stringify/parse operators, ECDH is exponentiation in a    *)
(* small multiplicative group Z_p^*, and ECDSA, HKDF and AES-GCM are     *)
(* symbolic (a signature names its signer and its message, a ciphertext    *)
(* names its key, its IV and its payload).                                 *)
(***************************************************************************)
EXTENDS Integers, Sequences, FiniteSets, TLC

----------------------------------------------------------------------------
(* Bounds of the model *)

MaxSend == 1
MaxDeliver == 3
MaxExchange == 1
MaxSeq == 2
MaxTicks == 1
MaxSenders == 2
MaxReceivers == 2
MaxEncrypt == 2
MaxUpload == 2
MaxStored == 2
MaxRelay == 2
MaxLoad == 1
MaxOrdered == 3
MaxSessions == 2
MaxAuthTicks == 3

(* Program constants *)

DefaultMaxAge == 3600000
ClockSkew == 60000
SessionLifetime == 86400000

(* The Diffie-Hellman group standing for the P-256 curve *)

DHPrime == 23
DHGen == 5

----------------------------------------------------------------------------
(* Parties: an honest sender, the local recipient, a registered user who   *)
(* is malicious.                                                           *)

Alice == "a"
Bob == "b"
Mallory == "m"
Users == {Alice, Bob, Mallory}

Null == [null |-> TRUE]

RECURSIVE ModExp(_, _, _)
ModExp(base, e, p) ==
  IF e = 0 THEN 1 ELSE (base * ModExp(base, e - 1, p)) % p

----------------------------------------------------------------------------
(* utils/crypto.js *)

\* the private scalars of the long-term ECDH pairs
DHPrivateOf == [u \in Users |->
                  IF u = Alice THEN 3 ELSE IF u = Bob THEN 6 ELSE 9]

\* a CryptoKey pair on the curve: private scalar d, public point q = g^d
ECDHKeyPair(d) ==
  [privateKey |-> [type |-> "private", algorithm |-> "ECDH", d |-> d],
   publicKey  |-> [type |-> "public", algorithm |-> "ECDH",
                   q |-> ModExp(DHGen, d, DHPrime)]]

\* generateIdentityKeyPair: the long-term signing and agreement pairs of u
generateIdentityKeyPair(u) ==
  [signing |-> [privateKey |-> [type |-> "private", algorithm |-> "ECDSA",
                                owner |-> u],
                publicKey  |-> [type |-> "public", algorithm |-> "ECDSA",
                                owner |-> u]],
   dh      |-> ECDHKeyPair(DHPrivateOf[u])]

\* the private scalars an ephemeral pair may be generated from
EphemeralPool == <<4, 7, 13, 16, 17, 19>>
MalloryEphemeral == 10

generateEphemeralKeyPairReused(n) == ECDHKeyPair(EphemeralPool[1])

generateEphemeralKeyPair(n) == ECDHKeyPair(EphemeralPool[n])

\* crypto.subtle.exportKey('jwk', key) and JSON.stringify
exportPublicKey(publicKey) ==
  <<"EC", "P-256", IF publicKey.algorithm = "ECDH" THEN publicKey.q
                                                   ELSE publicKey.owner>>

importPublicKey(jwkString, algorithm) ==
  [type |-> "public", algorithm |-> algorithm, owner |-> jwkString[3]]

importECDHPublicKey(jwkString) ==
  [type |-> "public", algorithm |-> "ECDH", q |-> jwkString[3]]

signData(privateKey, data) == [signer |-> privateKey.owner, data |-> data]

verifySignature(publicKey, data, signature) ==
  /\ signature.signer = publicKey.owner
  /\ signature.data = data

deriveSharedKeyWrongAgreement(privateKey, publicKey, context) ==
  [secret |-> (publicKey.q * privateKey.d) % DHPrime, salt |-> 0,
   info |-> context]

deriveSharedKey(privateKey, publicKey, context) ==
  LET sharedSecret == ModExp(publicKey.q, privateKey.d, DHPrime)
  IN  [secret |-> sharedSecret, salt |-> 0, info |-> context]

\* AES-GCM with a 128-bit tag
AesGcmEncrypt(key, iv, data) ==
  [key |-> key, iv |-> iv, data |-> data, tag |-> "ok"]

AesGcmDecryptUnauthenticated(key, iv, ciphertext) ==
  IF ciphertext.key = key
    THEN [ok |-> TRUE, data |-> ciphertext.data]
    ELSE [ok |-> FALSE, data |-> Null]

AesGcmDecrypt(key, iv, ciphertext) ==
  IF ciphertext.key = key /\ ciphertext.iv = iv /\ ciphertext.tag = "ok"
    THEN [ok |-> TRUE, data |-> ciphertext.data]
    ELSE [ok |-> FALSE, data |-> Null]

\* A decoded payload is a string, modelled as the tuple of its tokens.
\* JSON.stringify({text, timestamp}):
WrapPayloadLossy(text, timestamp) ==
  <<"{", "text", "", "timestamp", timestamp, "}">>

WrapPayload(text, timestamp) ==
  <<"{", "text", text, "timestamp", timestamp, "}">>

\* a payload written before the wrapper existed: the bare text
RawPayload(text) == <<text>>

\* JSON.parse(payloadStr) yields an object
IsJsonObject(payloadStr) ==
  /\ Len(payloadStr) >= 2
  /\ Len(payloadStr) % 2 = 0
  /\ payloadStr[1] = "{"
  /\ payloadStr[Len(payloadStr)] = "}"

\* the property names of the parsed object: `name in payload`
JsonKeys(payloadStr) ==
  {payloadStr[2 * i] : i \in 1..((Len(payloadStr) - 2) \div 2)}

JsonField(payloadStr, name) ==
  LET i == CHOOSE j \in 1..((Len(payloadStr) - 2) \div 2) :
             payloadStr[2 * j] = name
  IN  payloadStr[2 * i + 1]

\* crypto.getRandomValues(new Uint8Array(12)): the n-th draw of the generator,
\* a value that no earlier draw has produced
getRandomValues(n) == <<"iv", n>>

encryptMessageFixedIv(key, plaintext, time, iv) ==
  LET payload == WrapPayload(plaintext, time)
  IN  [ciphertext |-> AesGcmEncrypt(key, getRandomValues(0), payload),
       iv |-> getRandomValues(0)]

encryptMessage(key, plaintext, time, iv) ==
  LET payload == WrapPayload(plaintext, time)
  IN  [ciphertext |-> AesGcmEncrypt(key, iv, payload), iv |-> iv]

\* DataView.setBigUint64(0, BigInt(timestamp), false): 8 bytes, big-endian
\* (the clock values used here are below 2^32: the four high bytes are 0)
BigEndian8(n) ==
  [i \in 1..8 |-> IF i <= 4 THEN 0 ELSE (n \div (256 ^ (8 - i))) % 256]

\* encryptFile: [timestamp (8 bytes)] + [file data] under a fresh IV
encryptFile(key, fileBuffer, time, iv) ==
  LET combined == BigEndian8(time) \o fileBuffer
  IN  [ciphertext |-> AesGcmEncrypt(key, iv, combined), iv |-> iv,
       chunks |-> 1]

\* the options argument: no options, or {maxAge: n}
NoOptions == << >>
MaxAgeOption(n) == [maxAge |-> n]

\* options.maxAge || 3600000
MaxAgeOf(options) ==
  IF "maxAge" \in DOMAIN options /\ options.maxAge # 0
    THEN options.maxAge ELSE DefaultMaxAge

TooOld == "Message timestamp too old - possible replay attack"
InTheFuture == "Message timestamp is in the future - possible replay attack"
OperationError == "OperationError"

decryptMessageNoSkew(key, ciphertextBase64, ivBase64, options, time) ==
  LET plaintext  == AesGcmDecrypt(key, ivBase64, ciphertextBase64)
      payloadStr == plaintext.data
      maxAge     == MaxAgeOf(options)
      age        == time - JsonField(payloadStr, "timestamp")
  IN  IF ~plaintext.ok
        THEN [ok |-> FALSE, error |-> OperationError, text |-> "",
              freshness |-> FALSE]
      ELSE IF /\ IsJsonObject(payloadStr)
              /\ "text" \in JsonKeys(payloadStr)
              /\ "timestamp" \in JsonKeys(payloadStr)
        THEN IF age > maxAge
               THEN [ok |-> FALSE, error |-> TooOld, text |-> "",
                     freshness |-> TRUE]
             ELSE IF age < 0
               THEN [ok |-> FALSE, error |-> InTheFuture, text |-> "",
                     freshness |-> TRUE]
             ELSE [ok |-> TRUE, error |-> "",
                   text |-> JsonField(payloadStr, "text"), freshness |-> TRUE]
      ELSE [ok |-> TRUE, error |-> "", text |-> payloadStr,
            freshness |-> FALSE]

decryptMessage(key, ciphertextBase64, ivBase64, options, time) ==
  LET plaintext  == AesGcmDecrypt(key, ivBase64, ciphertextBase64)
      payloadStr == plaintext.data
      maxAge     == MaxAgeOf(options)
      age        == time - JsonField(payloadStr, "timestamp")
  IN  IF ~plaintext.ok
        THEN [ok |-> FALSE, error |-> OperationError, text |-> "",
              freshness |-> FALSE]
      ELSE IF /\ IsJsonObject(payloadStr)
              /\ "text" \in JsonKeys(payloadStr)
              /\ "timestamp" \in JsonKeys(payloadStr)
        THEN IF age > maxAge
               THEN [ok |-> FALSE, error |-> TooOld, text |-> "",
                     freshness |-> TRUE]
             ELSE IF age < -ClockSkew
               THEN [ok |-> FALSE, error |-> InTheFuture, text |-> "",
                     freshness |-> TRUE]
             ELSE [ok |-> TRUE, error |-> "",
                   text |-> JsonField(payloadStr, "text"), freshness |-> TRUE]
      ELSE [ok |-> TRUE, error |-> "", text |-> payloadStr,
            freshness |-> FALSE]

\* JSON.parse: texts that are JSON values without being objects
JsonLiterals == {<<"null">>}

\* JSON.parse(payloadStr) throws a SyntaxError
ParseThrows(payloadStr) ==
  ~IsJsonObject(payloadStr) /\ payloadStr \notin JsonLiterals

\* e.message of that SyntaxError. The language leaves the text of the message
\* to the engine: some engines quote the text they were given
\* (Unexpected token 'h', "hello" is not valid JSON), others give a position
\* only.
SyntaxErrorMessage(payloadStr, quotesSource) ==
  IF quotesSource
    THEN <<"Unexpected token">> \o payloadStr \o <<"is not valid JSON">>
    ELSE <<"Unexpected token in JSON at position 0">>

\* e.message.includes('replay attack')
IncludesReplayAttack(message) ==
  \E i \in DOMAIN message : message[i] = "replay attack"

\* decryptMessage with its catch block applied to the SyntaxError of
\* JSON.parse as well: an error whose message includes 'replay attack' is
\* thrown again, whatever threw it
decryptMessageOn(quotesSource, key, ciphertextBase64, ivBase64, options, time) ==
  LET plaintext == AesGcmDecrypt(key, ivBase64, ciphertextBase64)
  IN  IF /\ plaintext.ok
         /\ ParseThrows(plaintext.data)
         /\ IncludesReplayAttack(
              SyntaxErrorMessage(plaintext.data, quotesSource))
        THEN [ok |-> FALSE, error |-> "SyntaxError", text |-> "",
              freshness |-> FALSE]
        ELSE decryptMessage(key, ciphertextBase64, ivBase64, options, time)

FileTooOld == "File timestamp too old - possible replay attack"
FileInTheFuture == "File timestamp is in the future - possible replay attack"

\* Number(dataView.getBigUint64(0, false)) of the first 8 bytes
\* (the four high bytes are 0 for the clock values used here)
getBigUint64(bytes) ==
  bytes[5] * (256 ^ 3) + bytes[6] * (256 ^ 2) + bytes[7] * 256 + bytes[8]

\* plaintext.slice(8)
Slice8(bytes) == SubSeq(bytes, 9, Len(bytes))

decryptFileWhole(key, ciphertextBase64, ivBase64, options, time) ==
  LET plaintext == AesGcmDecrypt(key, ivBase64, ciphertextBase64)
      bytes     == plaintext.data
      maxAge    == MaxAgeOf(options)
      age       == time - getBigUint64(bytes)
  IN  IF ~plaintext.ok
        THEN [ok |-> FALSE, error |-> OperationError, data |-> << >>]
      ELSE IF Len(bytes) >= 8
        THEN IF age > maxAge
               THEN [ok |-> FALSE, error |-> FileTooOld, data |-> << >>]
             ELSE IF age < -ClockSkew
               THEN [ok |-> FALSE, error |-> FileInTheFuture, data |-> << >>]
             ELSE [ok |-> TRUE, error |-> "", data |-> bytes]
      ELSE [ok |-> TRUE, error |-> "", data |-> bytes]

decryptFile(key, ciphertextBase64, ivBase64, options, time) ==
  LET plaintext == AesGcmDecrypt(key, ivBase64, ciphertextBase64)
      bytes     == plaintext.data
      maxAge    == MaxAgeOf(options)
      age       == time - getBigUint64(bytes)
  IN  IF ~plaintext.ok
        THEN [ok |-> FALSE, error |-> OperationError, data |-> << >>]
      ELSE IF Len(bytes) >= 8
        THEN IF age > maxAge
               THEN [ok |-> FALSE, error |-> FileTooOld, data |-> << >>]
             ELSE IF age < -ClockSkew
               THEN [ok |-> FALSE, error |-> FileInTheFuture, data |-> << >>]
             ELSE [ok |-> TRUE, error |-> "", data |-> Slice8(bytes)]
      ELSE [ok |-> TRUE, error |-> "", data |-> bytes]

----------------------------------------------------------------------------
(* utils/storage.js: the object store 'sessions', keyed by keyId *)

EmptyStore == [k \in {} |-> Null]

Put(db, rec) ==
  [k \in (DOMAIN db) \cup {rec.keyId} |-> IF k = rec.keyId THEN rec ELSE db[k]]

Get(db, k) == IF k \in DOMAIN db THEN db[k] ELSE Null

SeqKey(recipientId) == <<"seq_", recipientId>>
RecvSeqKeyShared(senderId) == <<"seq_", senderId>>
RecvSeqKey(senderId) == <<"recv_seq_", senderId>>

\* request.result?.sequenceNumber || 0
SequenceNumberOf(rec) ==
  IF "sequenceNumber" \in DOMAIN rec THEN rec.sequenceNumber ELSE 0

storeSessionKey(db, keyId, recipientId, key, ephemeralPublicKey, time) ==
  Put(db, [keyId |-> keyId, recipientId |-> recipientId, key |-> key,
           ephemeralPublicKey |-> ephemeralPublicKey, createdAt |-> time])

getSessionKey(db, keyId) ==
  LET result == Get(db, keyId)
  IN  IF "key" \in DOMAIN result THEN result.key ELSE Null

clearAllKeys(db) == EmptyStore

getNextSequenceNumber(db, recipientId) ==
  LET seqKey     == SeqKey(recipientId)
      currentSeq == SequenceNumberOf(Get(db, seqKey))
      nextSeq    == currentSeq + 1
  IN  [db |-> Put(db, [keyId |-> seqKey, sequenceNumber |-> nextSeq]),
       value |-> nextSeq]

validateSequenceNumberLax(db, senderId, receivedSeq) ==
  LET seqKey  == RecvSeqKey(senderId)
      lastSeq == SequenceNumberOf(Get(db, seqKey))
  IN  IF receivedSeq < lastSeq
        THEN [db |-> db, value |-> FALSE]
        ELSE [db |-> Put(db, [keyId |-> seqKey, sequenceNumber |-> receivedSeq]),
              value |-> TRUE]

validateSequenceNumberEager(db, senderId, receivedSeq) ==
  LET seqKey  == RecvSeqKey(senderId)
      lastSeq == SequenceNumberOf(Get(db, seqKey))
      written == Put(db, [keyId |-> seqKey, sequenceNumber |-> receivedSeq])
  IN  [db |-> written, value |-> ~(receivedSeq <= lastSeq)]

validateSequenceNumber(db, senderId, receivedSeq) ==
  LET seqKey  == RecvSeqKey(senderId)
      lastSeq == SequenceNumberOf(Get(db, seqKey))
  IN  IF receivedSeq <= lastSeq
        THEN [db |-> db, value |-> FALSE]
        ELSE [db |-> Put(db, [keyId |-> seqKey, sequenceNumber |-> receivedSeq]),
              value |-> TRUE]

----------------------------------------------------------------------------
(* utils/storage.js: the object store 'keys', one record under 'identity' *)

storeIdentityKeyPair(keyPairs, userId) ==
  [id |-> "identity", userId |-> userId,
   signingPrivateKey |-> keyPairs.signing.privateKey,
   signingPublicKey  |-> keyPairs.signing.publicKey,
   dhPrivateKey      |-> keyPairs.dh.privateKey,
   dhPublicKey       |-> keyPairs.dh.publicKey]

getIdentitySigningKey(keys) ==
  IF "signingPrivateKey" \in DOMAIN keys THEN keys.signingPrivateKey ELSE Null

getIdentityDHKey(keys) ==
  IF "dhPrivateKey" \in DOMAIN keys THEN keys.dhPrivateKey ELSE Null

\* Register.js: JSON.stringify({signing, dh}), what the server's directory holds
PublicKeyData(u) ==
  LET keyPairs == generateIdentityKeyPair(u)
  IN  [signing |-> exportPublicKey(keyPairs.signing.publicKey),
       dh      |-> exportPublicKey(keyPairs.dh.publicKey)]

----------------------------------------------------------------------------
(* server/utils/securityLogger.js: the audit trail *)

getCriticalEvents ==
  {"replay_attack_detected", "invalid_signature", "auth_failure"}

\* logSecurityEvent: the severity an entry of the given type is saved with
SeverityOf(eventType) ==
  IF eventType \in getCriticalEvents THEN "CRITICAL" ELSE "INFO"

----------------------------------------------------------------------------
(* utils/keyExchange.js *)

InvalidSignature == "Invalid signature - potential MITM attack!"
MissingSigningKey == "Identity signing key not found"
MissingDHKey == "Invalid or missing DH private key - please re-register"

\* JSON.stringify({ephemeralPublicKey, keyId, timestamp, context}) and JSON.parse
StringifyHeader(h) == <<h.ephemeralPublicKey, h.keyId, h.timestamp, h.context>>
ParseHeader(s) ==
  [ephemeralPublicKey |-> s[1], keyId |-> s[2], timestamp |-> s[3],
   context |-> s[4]]

\* `${initiatorUserId}||${recipientUserId}||${Date.now()}`
ContextOf(initiatorUserId, recipientUserId, time) ==
  <<initiatorUserId, "||", recipientUserId, "||", time>>

\* the 128-bit random identifiers generateKeyId draws
KeyIdPool ==
  << <<"k1">>, <<"k2">>, <<"k3">>, <<"k4">>, <<"k5">>, <<"k6">> >>
generateKeyId(n) == KeyIdPool[n]

Failure(db, error) ==
  [ok |-> FALSE, error |-> error, db |-> db, keyId |-> Null,
   ephemeralPublicKey |-> Null, signature |-> Null, headerData |-> Null,
   sessionKey |-> Null, context |-> ""]

initiateKeyExchange(db, keys, initiatorUserId, recipientUserId, recipientPublicKeyData, time, n) ==
  LET recipientKeys       == recipientPublicKeyData
      ephemeralKeyPair    == generateEphemeralKeyPair(n)
      ephemeralPubJwk     == exportPublicKey(ephemeralKeyPair.publicKey)
      recipientECDHPubKey == importECDHPublicKey(recipientKeys.dh)
      context    == ContextOf(initiatorUserId, recipientUserId, time)
      sessionKey == deriveSharedKey(ephemeralKeyPair.privateKey,
                                    recipientECDHPubKey, context)
      keyId      == generateKeyId(n)
      stored     == storeSessionKey(db, keyId, recipientUserId, sessionKey,
                                    ephemeralPubJwk, time)
      identitySigningKey == getIdentitySigningKey(keys)
      headerData == StringifyHeader([ephemeralPublicKey |-> ephemeralPubJwk,
                                     keyId |-> keyId, timestamp |-> time,
                                     context |-> context])
  IN  IF identitySigningKey = Null
        THEN Failure(stored, MissingSigningKey)
        ELSE [ok |-> TRUE, error |-> "", db |-> stored, keyId |-> keyId,
              ephemeralPublicKey |-> ephemeralPubJwk,
              signature |-> signData(identitySigningKey, headerData),
              headerData |-> headerData, sessionKey |-> sessionKey,
              context |-> context]

completeKeyExchangeUnverified(db, keys, responderUserId, initiatorUserId, initiatorPublicKeyData, ephemeralPublicKeyJwk, headerData, signature, time) ==
  LET header     == ParseHeader(headerData)
      sessionKey == deriveSharedKey(getIdentityDHKey(keys),
                                    importECDHPublicKey(ephemeralPublicKeyJwk),
                                    header.context)
  IN  IF getIdentityDHKey(keys) = Null
        THEN Failure(db, MissingDHKey)
        ELSE [ok |-> TRUE, error |-> "",
              db |-> storeSessionKey(db, header.keyId, initiatorUserId,
                                     sessionKey, ephemeralPublicKeyJwk, time),
              keyId |-> header.keyId,
              ephemeralPublicKey |-> ephemeralPublicKeyJwk,
              signature |-> signature, headerData |-> headerData,
              sessionKey |-> sessionKey, context |-> header.context]

completeKeyExchangeFresh(db, keys, responderUserId, initiatorUserId, initiatorPublicKeyData, ephemeralPublicKeyJwk, headerData, signature, time) ==
  LET initiatorKeys       == initiatorPublicKeyData
      initiatorSigningKey == importPublicKey(initiatorKeys.signing, "ECDSA")
      isValid == verifySignature(initiatorSigningKey, headerData, signature)
      header  == ParseHeader(headerData)
      keyId   == header.keyId
      context == header.context
      initiatorEphemeralPubKey == importECDHPublicKey(ephemeralPublicKeyJwk)
      responderDHKey == getIdentityDHKey(keys)
      sessionKey == deriveSharedKey(responderDHKey, initiatorEphemeralPubKey,
                                    context)
  IN  IF ~isValid
        THEN Failure(db, InvalidSignature)
      ELSE IF time - header.timestamp > DefaultMaxAge
        THEN Failure(db, "Key exchange header too old")
      ELSE IF responderDHKey = Null
        THEN Failure(db, MissingDHKey)
      ELSE [ok |-> TRUE, error |-> "",
            db |-> storeSessionKey(db, keyId, initiatorUserId, sessionKey,
                                   ephemeralPublicKeyJwk, time),
            keyId |-> keyId, ephemeralPublicKey |-> ephemeralPublicKeyJwk,
            signature |-> signature, headerData |-> headerData,
            sessionKey |-> sessionKey, context |-> context]

completeKeyExchange(db, keys, responderUserId, initiatorUserId, initiatorPublicKeyData, ephemeralPublicKeyJwk, headerData, signature, time) ==
  LET initiatorKeys       == initiatorPublicKeyData
      initiatorSigningKey == importPublicKey(initiatorKeys.signing, "ECDSA")
      isValid == verifySignature(initiatorSigningKey, headerData, signature)
      header  == ParseHeader(headerData)
      keyId   == header.keyId
      context == header.context
      initiatorEphemeralPubKey == importECDHPublicKey(ephemeralPublicKeyJwk)
      responderDHKey == getIdentityDHKey(keys)
      sessionKey == deriveSharedKey(responderDHKey, initiatorEphemeralPubKey,
                                    context)
  IN  IF ~isValid
        THEN Failure(db, InvalidSignature)
      ELSE IF responderDHKey = Null
        THEN Failure(db, MissingDHKey)
      ELSE [ok |-> TRUE, error |-> "",
            db |-> storeSessionKey(db, keyId, initiatorUserId, sessionKey,
                                   ephemeralPublicKeyJwk, time),
            keyId |-> keyId, ephemeralPublicKey |-> ephemeralPublicKeyJwk,
            signature |-> signature, headerData |-> headerData,
            sessionKey |-> sessionKey, context |-> context]

getMessageKey(db, keyId) == getSessionKey(db, keyId)

----------------------------------------------------------------------------
(* State *)

VARIABLES
  now,          \* Date.now()
  ticks,        \* how often the clock has advanced
  identity,     \* per client: the record under 'identity' of the store 'keys'
  store,        \* per client: the object store 'sessions'
  messages,     \* Bob's Chat component: the messages state
  error,        \* Bob's Chat component: the error banner
  securityLog,  \* event types Bob's client has sent to the audit trail
  wire,         \* what Alice has handed to the API and the socket
  sends,        \* number of sendMessage calls
  delivered,    \* number of handleIncomingMessage calls
  initiated,    \* history: results of initiateKeyExchange at Alice
  completed,    \* history: successful completeKeyExchange calls at Bob
  last,         \* history: the path the latest handleIncomingMessage took
  api,          \* history: the latest storage call and what it returned
  tasks,        \* Bob's client: the async calls in flight, each at its await
  issued,       \* history: the numbers Bob's sendMessage obtained for Alice
  cipher,       \* history: the encryptions made and the latest decryption
  puts,         \* history: per keyId, the key last given to storeSessionKey
  view,         \* Bob's App component: the view shown, 'chat' or 'login'
  auth,         \* Bob's client: the auth token of utils/api.js, localStorage,
                \* and history: the requests sent and the tokens logged out
  server        \* the server: the stored messages and what the socket relayed

vars == <<now, ticks, identity, store, messages, error, securityLog, wire,
          sends, delivered, initiated, completed, last, api, tasks, issued,
          cipher, puts, view, auth, server>>

protocolVars == <<now, ticks, identity, messages, error, securityLog, wire,
                  sends, delivered, initiated, completed, last, tasks, issued,
                  cipher, view, auth, server>>

Clients == {Alice, Bob}

Absent == << >>

NoHandling ==
  [handled |-> FALSE, data |-> Null, seqChecked |-> FALSE,
   kxCalled |-> FALSE, kxOk |-> FALSE, kxError |-> "", kxSessionKey |-> Null,
   publicKeyData |-> Null, freshness |-> FALSE, outcome |-> "none"]

NoCall ==
  [fn |-> "none", id |-> "", keyId |-> Absent, seq |-> 0, value |-> Null]

NoDecrypt ==
  [called |-> FALSE, of |-> 0, key |-> Null, variant |-> "", options |-> << >>,
   time |-> 0, result |-> Null]

\* the calls of sendMessage and of handleIncomingMessage that may be in flight
SendTasks == 1..MaxSenders
RecvTasks == (MaxSenders + 1)..(MaxSenders + MaxReceivers)
TaskIds == SendTasks \cup RecvTasks

\* what verifySession returns for no user: null, written as a string so that
\* it compares with user ids
NoUserId == "null"

NoVerify == [called |-> FALSE, token |-> "", time |-> 0, userId |-> NoUserId]

\* the server before any request: no Message document, nothing relayed, no
\* auth session
NoServer ==
  [messages |-> << >>, relayed |-> << >>, op |-> "none", userId |-> "",
   status |-> 0, body |-> Null, gets |-> 0,
   sessions |-> [t \in {} |-> Null], granted |-> [t \in {} |-> Null],
   verify |-> NoVerify]

Idle ==
  [kind |-> "idle", pc |-> "idle", data |-> Null, senderData |-> Null,
   peers |-> {}, sequenceNumber |-> 0, sessionKey |-> Null, stored |-> Null,
   unmounted |-> FALSE, outcome |-> "none"]

\* generateSessionToken: the n-th draw of 32 random bytes, a value no earlier
\* draw has produced
TokenPool == <<"t1", "t2", "t3", "t4">>
generateSessionToken(n) == TokenPool[n]
UnknownToken == "t0"

\* utils/api.js: authToken is null, written as a string so that it compares
\* with tokens
NoToken == "null"

setAuthToken(a, token) ==
  [a EXCEPT !.authToken = token, !.localStorage = token]

clearAuthToken(a) ==
  [a EXCEPT !.authToken = NoToken, !.localStorage = NoToken]

getAuthToken(a) == a.authToken

\* apiRequest: ...(authToken && { Authorization: `Bearer ${authToken}` })
apiRequest(a, endpoint) ==
  [endpoint |-> endpoint,
   authorization |-> IF a.authToken # NoToken
                       THEN <<"Bearer", a.authToken>> ELSE Absent]

\* localStorage.clear()
localStorageClear(a) == [a EXCEPT !.localStorage = NoToken]

\* history: the request is sent; it is stale when it carries the token of a
\* session the user has logged out of
Sent(a, request) ==
  [a EXCEPT !.sent = @ \cup
     {[endpoint |-> request.endpoint, authorization |-> request.authorization,
       stale |-> \E t \in a.loggedOut :
                   request.authorization = <<"Bearer", t>>]}]

\* Bob is logged in: Login.handleSubmit has called setAuthToken
LoggedIn ==
  [authToken |-> generateSessionToken(1),
   localStorage |-> generateSessionToken(1), sent |-> {}, loggedOut |-> {},
   logins |-> 1]

Init ==
  /\ now = 0
  /\ ticks = 0
  /\ identity = [c \in Clients |->
                   storeIdentityKeyPair(generateIdentityKeyPair(c), c)]
  /\ store = [c \in Clients |-> EmptyStore]
  /\ messages = << >>
  /\ error = ""
  /\ securityLog = {}
  /\ wire = {}
  /\ sends = 0
  /\ delivered = 0
  /\ initiated = {}
  /\ completed = {}
  /\ last = NoHandling
  /\ api = NoCall
  /\ tasks = [t \in TaskIds |-> Idle]
  /\ issued = << >>
  /\ cipher = [made |-> << >>, last |-> NoDecrypt, lastFile |-> NoDecrypt]
  /\ puts = EmptyStore
  /\ view = "chat"
  /\ auth = LoggedIn
  /\ server = NoServer

----------------------------------------------------------------------------
(* The clock *)

Tick ==
  /\ ticks < MaxTicks
  /\ ticks' = ticks + 1
  /\ now' = now + DefaultMaxAge + 1
  /\ UNCHANGED <<identity, store, messages, error, securityLog, wire, sends,
                 delivered, initiated, completed, last, api, tasks, issued,
                 cipher, puts, view,
                 auth, server>>

----------------------------------------------------------------------------
(* hooks/useKeyExchange.js and components/Chat.js, the sender *)

Plaintexts == {"hello"}

\* useKeyExchange.initiate: the directory lookup, then initiateKeyExchange
initiate(db, keys, senderUserId, recipientUserId, recipientData, time, n) ==
  initiateKeyExchange(db, keys, senderUserId, recipientUserId, recipientData,
                      time, n)

\* Chat.sendMessage: the object handed to the API and to the socket
messageDataWithKey(senderId, recipientId, encrypted, keyExchange, sequenceNumber) ==
  [senderId |-> senderId, recipientId |-> recipientId,
   ciphertext |-> encrypted.ciphertext, iv |-> encrypted.iv,
   keyId |-> keyExchange.keyId,
   ephemeralPublicKey |-> keyExchange.ephemeralPublicKey,
   headerData |-> keyExchange.headerData,
   signature |-> keyExchange.signature,
   sequenceNumber |-> sequenceNumber,
   sessionKey |-> keyExchange.sessionKey]

messageData(senderId, recipientId, encrypted, keyExchange, sequenceNumber) ==
  [senderId |-> senderId, recipientId |-> recipientId,
   ciphertext |-> encrypted.ciphertext, iv |-> encrypted.iv,
   keyId |-> keyExchange.keyId,
   ephemeralPublicKey |-> keyExchange.ephemeralPublicKey,
   headerData |-> keyExchange.headerData,
   signature |-> keyExchange.signature,
   sequenceNumber |-> sequenceNumber]

\* Chat.sendMessage by Alice to Bob, called at most limit times
SendMessageWithin(limit, newMessage) ==
  LET n           == sends + 1
      keyExchange == initiate(store[Alice], identity[Alice], Alice, Bob,
                              PublicKeyData(Bob), now, n)
      encrypted   == encryptMessage(keyExchange.sessionKey, newMessage, now,
                                    <<"iv", n>>)
      sequence    == getNextSequenceNumber(keyExchange.db, Bob)
      envelope    == messageData(Alice, Bob, encrypted, keyExchange,
                                 sequence.value)
  IN  /\ sends < limit
      /\ sends' = n
      /\ IF keyExchange.ok
           THEN /\ store' = [store EXCEPT ![Alice] = sequence.db]
                /\ wire' = wire \cup {envelope}
                /\ initiated' = initiated \cup
                     {[by |-> Alice, to |-> Bob,
                       recipientPublicKeyData |-> PublicKeyData(Bob),
                       keyId |-> keyExchange.keyId,
                       ephemeralPublicKey |-> keyExchange.ephemeralPublicKey,
                       headerData |-> keyExchange.headerData,
                       signature |-> keyExchange.signature,
                       sessionKey |-> keyExchange.sessionKey,
                       persistedKey |->
                         getSessionKey(keyExchange.db, keyExchange.keyId)]}
           ELSE /\ store' = [store EXCEPT ![Alice] = keyExchange.db]
                /\ UNCHANGED <<wire, initiated>>
      /\ UNCHANGED <<now, ticks, identity, messages, error, securityLog,
                     delivered, completed, last, api, tasks, issued, cipher, puts, view,
                 auth, server>>

SendMessage(newMessage) == SendMessageWithin(MaxSend, newMessage)

----------------------------------------------------------------------------
(* components/FileUpload.js, the sender *)

\* the File objects the user may select: name, type and bytes
SelectedFiles ==
  { [name |-> "a.txt", type |-> "text/plain", bytes |-> << >>],
    [name |-> "b.bin", type |-> "application/octet-stream",
     bytes |-> <<1, 2>>],
    [name |-> "c.png", type |-> "image/png", bytes |-> <<255>>] }

\* handleUpload: the object handed to uploadFile
fileData(recipientId, selectedFile, encrypted, keyExchange) ==
  [recipientId |-> recipientId, filename |-> selectedFile.name,
   mimeType |-> selectedFile.type, size |-> Len(selectedFile.bytes),
   ciphertext |-> encrypted.ciphertext, iv |-> encrypted.iv,
   chunks |-> encrypted.chunks, keyId |-> keyExchange.keyId,
   ephemeralPublicKey |-> keyExchange.ephemeralPublicKey,
   signature |-> keyExchange.signature,
   headerData |-> keyExchange.headerData]

Uploads == {e \in wire : "filename" \in DOMAIN e}

\* FileUpload.handleUpload by Alice for Bob
UploadFile(selectedFile) ==
  LET n           == MaxSend + 1 + Cardinality(Uploads)
      keyExchange == initiateKeyExchange(store[Alice], identity[Alice], Alice,
                                         Bob, PublicKeyData(Bob), now, n)
      encrypted   == encryptFile(keyExchange.sessionKey, selectedFile.bytes,
                                 now, getRandomValues(n))
  IN  /\ Cardinality(Uploads) < MaxUpload
      /\ store' = [store EXCEPT ![Alice] = keyExchange.db]
      /\ IF keyExchange.ok
           THEN /\ wire' = wire \cup
                     {fileData(Bob, selectedFile, encrypted, keyExchange)}
                /\ initiated' = initiated \cup
                     {[by |-> Alice, to |-> Bob,
                       recipientPublicKeyData |-> PublicKeyData(Bob),
                       keyId |-> keyExchange.keyId,
                       ephemeralPublicKey |-> keyExchange.ephemeralPublicKey,
                       headerData |-> keyExchange.headerData,
                       signature |-> keyExchange.signature,
                       sessionKey |-> keyExchange.sessionKey,
                       persistedKey |->
                         getSessionKey(keyExchange.db, keyExchange.keyId)]}
           ELSE UNCHANGED <<wire, initiated>>
      /\ UNCHANGED <<now, ticks, identity, messages, error, securityLog, sends,
                     delivered, completed, last, api, tasks, issued, cipher, puts, view,
                 auth, server>>

\* what Alice's client hands to the API and the socket, nothing being delivered
NextWire ==
  \/ Tick
  \/ \E newMessage \in Plaintexts : SendMessage(newMessage)
  \/ \E selectedFile \in SelectedFiles : UploadFile(selectedFile)

SpecWire == Init /\ [][NextWire]_vars

----------------------------------------------------------------------------
(* The delivery channel and the public key directory, both untrusted *)

\* what GET /users/:id/public-key may answer: the user's registered keys, or
\* the keys an intermediary substitutes
DirectoryAnswers(userId) == {PublicKeyData(userId), PublicKeyData(Mallory)}

TamperHeader(headerData) ==
  <<headerData[1], headerData[2], headerData[3] + 1, headerData[4]>>

MalloryEphemeralJwk ==
  exportPublicKey(ECDHKeyPair(MalloryEphemeral).publicKey)

\* a captured envelope as it is, or with one field altered in transit
Altered(e) ==
  { e,
    [e EXCEPT !.ephemeralPublicKey = MalloryEphemeralJwk],
    [e EXCEPT !.headerData = TamperHeader(@)],
    [e EXCEPT !.signature = [@ EXCEPT !.signer = "?"]],
    [e EXCEPT !.ciphertext = [@ EXCEPT !.tag = "flipped"]] }

\* the sequence number is outside the signature and the ciphertext: the
\* channel may keep it, drop it (0) or replace it
Resequenced(e) ==
  {[e EXCEPT !.sequenceNumber = n] : n \in {e.sequenceNumber, 0, MaxSeq}}

\* an envelope Mallory, a registered user, builds and signs herself; the
\* keyId of her header is any string she likes
MalloryKeyIds == {<<"km">>, RecvSeqKey(Alice)}

MalloryEnvelope(keyId, wrapped, sequenceNumber) ==
  LET context    == ContextOf(Mallory, Bob, now)
      sessionKey == deriveSharedKey(ECDHKeyPair(MalloryEphemeral).privateKey,
                      importECDHPublicKey(PublicKeyData(Bob).dh), context)
      headerData == StringifyHeader(
                      [ephemeralPublicKey |-> MalloryEphemeralJwk,
                       keyId |-> keyId, timestamp |-> now,
                       context |-> context])
      payload    == IF wrapped THEN WrapPayload("evil", now)
                               ELSE RawPayload("evil")
      iv         == <<"iv", 0>>
  IN  [senderId |-> Mallory, recipientId |-> Bob,
       ciphertext |-> AesGcmEncrypt(sessionKey, iv, payload), iv |-> iv,
       keyId |-> keyId, ephemeralPublicKey |-> MalloryEphemeralJwk,
       headerData |-> headerData,
       signature |-> signData(generateIdentityKeyPair(Mallory).signing.privateKey,
                              headerData),
       sequenceNumber |-> sequenceNumber]

\* an envelope Mallory builds from the exchange material of her session
\* with Alice: the context of its signed header names Mallory and Alice
ForeignSessionEnvelope ==
  LET context    == ContextOf(Mallory, Alice, now)
      sessionKey == deriveSharedKey(ECDHKeyPair(MalloryEphemeral).privateKey,
                      importECDHPublicKey(PublicKeyData(Bob).dh), context)
      headerData == StringifyHeader(
                      [ephemeralPublicKey |-> MalloryEphemeralJwk,
                       keyId |-> <<"km">>, timestamp |-> now,
                       context |-> context])
      iv         == <<"iv", 0>>
  IN  [senderId |-> Mallory, recipientId |-> Bob,
       ciphertext |-> AesGcmEncrypt(sessionKey, iv, WrapPayload("evil", now)),
       iv |-> iv, keyId |-> <<"km">>,
       ephemeralPublicKey |-> MalloryEphemeralJwk, headerData |-> headerData,
       signature |-> signData(generateIdentityKeyPair(Mallory).signing.privateKey,
                              headerData),
       sequenceNumber |-> 0]

Deliverable ==
  UNION {UNION {Resequenced(t) : t \in Altered(e)} : e \in wire}
  \cup {MalloryEnvelope(k, w, n) :
          k \in MalloryKeyIds, w \in BOOLEAN, n \in 0..1}
  \cup {ForeignSessionEnvelope}

----------------------------------------------------------------------------
(* hooks/useKeyExchange.js and components/Chat.js, the recipient *)

\* useKeyExchange.complete: the directory lookup, then completeKeyExchange
complete(db, keys, recipientUserId, senderUserId, senderData, ephemeralPublicKey, headerData, signature, time) ==
  completeKeyExchange(db, keys, recipientUserId, senderUserId, senderData,
                      ephemeralPublicKey, headerData, signature, time)

\* Chat.handleIncomingMessage at Bob; senderData is what the directory answers
HandleIncomingMessage(data, senderData) ==
  LET db0        == store[Bob]
      seqChecked == data.sequenceNumber # 0
      validated  == validateSequenceNumber(db0, data.senderId,
                                           data.sequenceNumber)
      replay     == seqChecked /\ ~validated.value
      db1        == IF seqChecked THEN validated.db ELSE db0
      storedKey  == getMessageKey(db1, data.keyId)
      kxCalled   == storedKey = Null /\ data.ephemeralPublicKey # Absent
      kx         == complete(db1, identity[Bob], Bob, data.senderId,
                             senderData, data.ephemeralPublicKey,
                             data.headerData, data.signature, now)
      kxFailed   == kxCalled /\ ~kx.ok
      db2        == IF kxCalled THEN kx.db ELSE db1
      sessionKey == IF kxCalled THEN kx.sessionKey ELSE storedKey
      plain      == decryptMessage(sessionKey, data.ciphertext, data.iv, NoOptions,
                                   now)
      accepted   == ~kxFailed /\ plain.ok
  IN  /\ delivered' = delivered + 1
      /\ IF replay
           THEN /\ securityLog' = securityLog \cup {"replay_attack_detected"}
                /\ error' = "Replay attack detected - message rejected"
                /\ last' = [handled |-> TRUE, data |-> data,
                            seqChecked |-> TRUE, kxCalled |-> FALSE,
                            kxOk |-> FALSE, kxError |-> "",
                            kxSessionKey |-> Null, publicKeyData |-> Null,
                            freshness |-> FALSE, outcome |-> "replay"]
                /\ UNCHANGED <<store, messages, completed>>
           ELSE /\ store' = [store EXCEPT ![Bob] = db2]
                /\ securityLog' = securityLog
                     \cup (IF kxCalled /\ kx.ok
                             THEN {"key_exchange_success"} ELSE {})
                     \cup (IF kxFailed THEN {"key_exchange_failure"} ELSE {})
                     \cup (IF accepted THEN {} ELSE {"decryption_failure"})
                /\ messages' = Append(messages,
                     IF accepted
                       THEN [data |-> data, plaintext |-> plain.text,
                             decrypted |-> TRUE, error |-> ""]
                       ELSE [data |-> data, plaintext |-> "[Decryption failed]",
                             decrypted |-> FALSE,
                             error |-> IF kxFailed THEN kx.error
                                                   ELSE plain.error])
                /\ completed' = IF kxCalled /\ kx.ok
                     THEN completed \cup
                            {[at |-> Bob, initiatorUserId |-> data.senderId,
                              initiatorPublicKeyData |-> senderData,
                              ephemeralPublicKey |-> data.ephemeralPublicKey,
                              headerData |-> data.headerData,
                              signature |-> data.signature,
                              keyId |-> kx.keyId,
                              sessionKey |-> kx.sessionKey,
                              persistedKey |-> getSessionKey(kx.db, kx.keyId)]}
                     ELSE completed
                /\ last' = [handled |-> TRUE, data |-> data,
                            seqChecked |-> seqChecked, kxCalled |-> kxCalled,
                            kxOk |-> kxCalled /\ kx.ok,
                            kxError |-> IF kxCalled THEN kx.error ELSE "",
                            kxSessionKey |-> IF kxCalled THEN kx.sessionKey
                                                         ELSE Null,
                            publicKeyData |-> IF kxCalled THEN senderData
                                                          ELSE Null,
                            freshness |-> ~kxFailed /\ plain.freshness,
                            outcome |-> IF accepted THEN "accepted"
                                                    ELSE "failed"]
                /\ UNCHANGED error
      /\ UNCHANGED <<now, ticks, identity, wire, sends, initiated, api, tasks,
                     issued, cipher, puts, view,
                 auth, server>>

\* the socket's 'message' event fires with whatever the channel hands over
Deliver ==
  /\ delivered < MaxDeliver
  /\ \E data \in Deliverable :
       \E senderData \in DirectoryAnswers(data.senderId) :
         HandleIncomingMessage(data, senderData)

\* setTimeout(() => setError(''), 5000)
ClearError ==
  /\ error # ""
  /\ error' = ""
  /\ UNCHANGED <<now, ticks, identity, store, messages, securityLog, wire,
                 sends, delivered, initiated, completed, last, api, tasks,
                 issued, cipher, puts, view,
                 auth, server>>

Next ==
  \/ Tick
  \/ \E newMessage \in Plaintexts : SendMessage(newMessage)
  \/ Deliver
  \/ ClearError

Spec == Init /\ [][Next]_vars

\* The same client while at most MaxExchange envelopes arrive
DeliverExchange ==
  /\ delivered < MaxExchange
  /\ \E data \in Deliverable :
       \E senderData \in DirectoryAnswers(data.senderId) :
         HandleIncomingMessage(data, senderData)

NextExchange ==
  \/ Tick
  \/ \E newMessage \in Plaintexts : SendMessage(newMessage)
  \/ DeliverExchange

SpecExchange == Init /\ [][NextExchange]_vars

----------------------------------------------------------------------------
(* Alice sends several messages over a channel that delivers each of them  *)
(* at least once and in any order, and alters nothing                      *)

DeliverUnordered ==
  /\ delivered < MaxDeliver
  /\ \E data \in wire :
       HandleIncomingMessage(data, PublicKeyData(data.senderId))

NextOrder ==
  \/ Tick
  \/ \E newMessage \in Plaintexts : SendMessageWithin(MaxOrdered, newMessage)
  \/ DeliverUnordered

SpecOrder == Init /\ [][NextOrder]_vars

----------------------------------------------------------------------------
(* server/routes/messages.js and server/index.js: the message store and    *)
(* the socket relay; Chat.loadMessages, which reads the store back         *)

otherVars == <<now, ticks, identity, store, messages, error, securityLog,
               wire, sends, delivered, initiated, completed, last, api, tasks,
               issued, cipher, puts, view, auth>>

\* if (!recipientId || !ciphertext || !iv || !keyId || !signature)
RequiredFields == {"recipientId", "ciphertext", "iv", "keyId", "signature"}

OptionalField(body, f, default) == IF f \in DOMAIN body THEN body[f] ELSE default

\* new Message({senderId: req.userId, ..., sequenceNumber: sequenceNumber || 0})
NewMessage(userId, body, id, time) ==
  [_id |-> id, senderId |-> userId, recipientId |-> body.recipientId,
   ciphertext |-> body.ciphertext, iv |-> body.iv, keyId |-> body.keyId,
   ephemeralPublicKey |-> OptionalField(body, "ephemeralPublicKey", Absent),
   headerData |-> OptionalField(body, "headerData", Absent),
   signature |-> body.signature,
   sequenceNumber |-> OptionalField(body, "sequenceNumber", 0),
   timestamp |-> time, delivered |-> FALSE, read |-> FALSE]

\* a request body without its signature
Unsigned(body) == [f \in DOMAIN body \ {"signature"} |-> body[f]]

\* the POST requests that reach the server: what a client sent, forwarded as
\* it is and any number of times (under the sender's token), or cut short
Requests ==
  {[userId |-> e.senderId, body |-> e] : e \in wire}
    \cup {[userId |-> e.senderId, body |-> Unsigned(e)] : e \in wire}

\* router.post('/', authenticate, ...)
PostMessage(userId, body) ==
  /\ Len(server.messages) < MaxStored
  /\ IF RequiredFields \subseteq DOMAIN body
       THEN server' = [server EXCEPT
              !.messages = Append(@, NewMessage(userId, body, Len(@) + 1, now)),
              !.op = "post", !.userId = userId, !.status = 201,
              !.body = body]
       ELSE server' = [server EXCEPT
              !.op = "post", !.userId = userId, !.status = 400,
              !.body = body]
  /\ UNCHANGED otherVars

\* socket.on('message', data): io.to(data.recipientId).emit('message', data)
Relay(data) ==
  /\ Len(server.relayed) < MaxRelay
  /\ server' = [server EXCEPT !.relayed = Append(@, data), !.op = "relay",
                               !.userId = data.senderId, !.status = 0,
                               !.body = data]
  /\ UNCHANGED otherVars

\* Bob's socket fires 'message' for what the server emitted to his room
SocketDeliver ==
  /\ view = "chat"
  /\ delivered < Len(server.relayed)
  /\ server.relayed[delivered + 1].recipientId = Bob
  /\ HandleIncomingMessage(server.relayed[delivered + 1],
         PublicKeyData(server.relayed[delivered + 1].senderId))

\* router.get('/'): Message.find({$or: [{recipientId}, {senderId}]}), by time
GetMessages(userId) ==
  SelectSeq(server.messages,
            LAMBDA m : m.recipientId = userId \/ m.senderId = userId)

Entry(msg, plaintext, decrypted, err) ==
  [data |-> msg, plaintext |-> plaintext, decrypted |-> decrypted,
   error |-> err]

\* loadMessages: what the callback of messagesList.map returns for msg, the
\* record its complete() stores and the events it logs.  The lookups of all
\* callbacks are issued before any of them goes on: each sees the store db.
LoadedMessage(db, keys, msg, time) ==
  LET storedKey  == getMessageKey(db, msg.keyId)
      kxCalled   == /\ storedKey = Null
                    /\ msg.ephemeralPublicKey # Absent
                    /\ msg.headerData # Absent
      kx         == complete(db, keys, Bob, msg.senderId,
                             PublicKeyData(msg.senderId), msg.ephemeralPublicKey,
                             msg.headerData, msg.signature, time)
      sessionKey == IF kxCalled THEN kx.sessionKey ELSE storedKey
      plain      == decryptMessage(sessionKey, msg.ciphertext, msg.iv,
                                   NoOptions, time)
      put        == IF kxCalled THEN Get(kx.db, kx.keyId) ELSE Null
      done       == IF kxCalled
                      THEN [at |-> Bob, initiatorUserId |-> msg.senderId,
                            initiatorPublicKeyData |->
                              PublicKeyData(msg.senderId),
                            ephemeralPublicKey |-> msg.ephemeralPublicKey,
                            headerData |-> msg.headerData,
                            signature |-> msg.signature, keyId |-> kx.keyId,
                            sessionKey |-> kx.sessionKey,
                            persistedKey |-> getSessionKey(kx.db, kx.keyId)]
                      ELSE Null
  IN  IF msg.senderId = Bob
        THEN [entry |-> Entry(msg, "[Sent]", FALSE, ""), put |-> Null,
              done |-> Null, log |-> {}]
      ELSE IF kxCalled /\ ~kx.ok
        THEN [entry |-> Entry(msg, "[Key exchange failed]", FALSE, kx.error),
              put |-> Null, done |-> Null, log |-> {"key_exchange_failure"}]
      ELSE IF sessionKey = Null
        THEN [entry |-> Entry(msg, "[Encrypted]", FALSE, ""), put |-> Null,
              done |-> Null, log |-> {}]
      ELSE IF plain.ok
        THEN [entry |-> Entry(msg, plain.text, TRUE, ""), put |-> put,
              done |-> done, log |-> {}]
      ELSE [entry |-> Entry(msg, "[Decryption failed]", FALSE, plain.error),
            put |-> put, done |-> done, log |-> {"decryption_failure"}]

\* the orders in which the n callbacks of Promise.all may get to their store
Orders(n) ==
  {o \in [1..n -> 1..n] : \A i, j \in 1..n : o[i] = o[j] => i = j}

RECURSIVE StoreAll(_, _, _)
StoreAll(db, loaded, order) ==
  IF order = << >> THEN db
  ELSE LET put == loaded[Head(order)].put
       IN  StoreAll(IF put = Null THEN db ELSE Put(db, put), loaded,
                    Tail(order))

\* Chat.loadMessages at Bob: getMessages, Promise.all over the list,
\* setMessages(decryptedMessages)
LoadMessages(order) ==
  LET messagesList == GetMessages(Bob)
      loaded == [i \in DOMAIN messagesList |->
                   LoadedMessage(store[Bob], identity[Bob], messagesList[i],
                                 now)]
  IN  /\ store' = [store EXCEPT ![Bob] = StoreAll(@, loaded, order)]
      /\ messages' = [i \in DOMAIN messagesList |-> loaded[i].entry]
      /\ securityLog' = securityLog
           \cup UNION {loaded[i].log : i \in DOMAIN messagesList}
      /\ completed' = completed
           \cup {loaded[i].done : i \in {j \in DOMAIN messagesList :
                                             loaded[j].done # Null}}
      /\ server' = [server EXCEPT !.gets = @ + 1, !.op = "get", !.userId = Bob,
                                  !.status = 200, !.body = Null]

\* the page is loaded again: App.checkAuth finds the token and the keys, the
\* Chat component mounts and its effect calls loadMessages
Reload ==
  /\ server.gets < MaxLoad
  /\ view = "chat"
  /\ getIdentitySigningKey(identity[Bob]) # Null
  /\ \E order \in Orders(Len(GetMessages(Bob))) : LoadMessages(order)
  /\ error' = ""
  /\ UNCHANGED <<now, ticks, identity, wire, sends, delivered, initiated,
                 last, api, tasks, issued, cipher, puts, view, auth>>

NextServer ==
  \/ Tick
  \/ \E newMessage \in Plaintexts : SendMessage(newMessage)
  \/ \E r \in Requests : PostMessage(r.userId, r.body)
  \/ \E data \in wire : Relay(data)
  \/ SocketDeliver
  \/ Reload

SpecServer == Init /\ [][NextServer]_vars

----------------------------------------------------------------------------
(* server/middleware/auth.js: the in-memory auth sessions *)

\* sessions.set(token, {userId, createdAt: Date.now()})
createSession(sessions, userId, time, n) ==
  LET token == generateSessionToken(n)
  IN  [token |-> token,
       sessions |-> [t \in (DOMAIN sessions) \cup {token} |->
                      IF t = token THEN [userId |-> userId, createdAt |-> time]
                                   ELSE sessions[t]]]

verifySessionInclusive(sessions, token, time) ==
  IF token \notin DOMAIN sessions
    THEN [userId |-> NoUserId, sessions |-> sessions]
  ELSE IF time - sessions[token].createdAt >= SessionLifetime
    THEN [userId |-> NoUserId,
          sessions |-> [t \in (DOMAIN sessions) \ {token} |-> sessions[t]]]
  ELSE [userId |-> sessions[token].userId, sessions |-> sessions]

\* verifySession: the user id, or null with the expired session deleted
verifySession(sessions, token, time) ==
  IF token \notin DOMAIN sessions
    THEN [userId |-> NoUserId, sessions |-> sessions]
  ELSE IF time - sessions[token].createdAt > SessionLifetime
    THEN [userId |-> NoUserId,
          sessions |-> [t \in (DOMAIN sessions) \ {token} |-> sessions[t]]]
  ELSE [userId |-> sessions[token].userId, sessions |-> sessions]

\* the server's clock advances by a day or by a millisecond
ServerClock(d) ==
  /\ ticks < MaxAuthTicks
  /\ ticks' = ticks + 1
  /\ now' = now + d
  /\ UNCHANGED <<identity, store, messages, error, securityLog, wire, sends,
                 delivered, initiated, completed, last, api, tasks, issued,
                 cipher, puts, view, auth, server>>

\* routes/auth.js, register and login: createSession(user._id.toString())
CreateSession(userId) ==
  LET created == createSession(server.sessions, userId, now,
                               Cardinality(DOMAIN server.granted) + 1)
  IN  /\ Cardinality(DOMAIN server.granted) < MaxSessions
      /\ server' = [server EXCEPT
           !.sessions = created.sessions,
           !.granted = [t \in (DOMAIN @) \cup {created.token} |->
                          IF t = created.token THEN created.sessions[t]
                                               ELSE server.granted[t]],
           !.op = "login", !.userId = userId, !.status = 200]
      /\ UNCHANGED otherVars

\* authenticate: a request with the header `Bearer <token>`
Authenticate(token) ==
  LET verified == verifySession(server.sessions, token, now)
  IN  /\ server' = [server EXCEPT
           !.sessions = verified.sessions,
           !.verify = [called |-> TRUE, token |-> token, time |-> now,
                       userId |-> verified.userId],
           !.op = "authenticate",
           !.userId = verified.userId,
           !.status = IF verified.userId = NoUserId THEN 401 ELSE 200]
      /\ UNCHANGED otherVars

NextAuth ==
  \/ \E d \in {1, SessionLifetime} : ServerClock(d)
  \/ \E userId \in Clients : CreateSession(userId)
  \/ \E token \in (DOMAIN server.granted) \cup {UnknownToken} :
       Authenticate(token)

SpecAuth == Init /\ [][NextAuth]_vars

----------------------------------------------------------------------------
(* Bob's client with several calls in flight.  Every await of sendMessage  *)
(* and of handleIncomingMessage that reads or writes the object store is a *)
(* step of its own; a storage function is one step, since it runs in one   *)
(* IndexedDB transaction on the store and its put is issued from the       *)
(* success callback of its get.                                            *)

clientVars == <<now, ticks, identity, wire, sends, delivered, initiated, last,
                api, cipher, puts, view, server>>

Active(t) == tasks[t].kind # "idle" /\ tasks[t].pc # "done"

\* what Alice's sendMessage has put on the channel for Bob
AliceExchange ==
  initiate(EmptyStore, storeIdentityKeyPair(generateIdentityKeyPair(Alice), Alice),
           Alice, Bob, PublicKeyData(Bob), 0, Len(KeyIdPool))

AliceEnvelope ==
  messageData(Alice, Bob,
              encryptMessage(AliceExchange.sessionKey, "hello", 0,
                             <<"iv", Len(KeyIdPool)>>),
              AliceExchange, 1)

\* what the channel hands to Bob: Alice's envelope, a copy of it with the
\* unauthenticated sequence number raised, and envelopes that Mallory signed
\* herself, whose keyId fields are strings of her choice
Inbound ==
  { AliceEnvelope,
    [AliceEnvelope EXCEPT !.sequenceNumber = 2],
    MalloryEnvelope(AliceEnvelope.keyId, TRUE, 1),
    [MalloryEnvelope(AliceEnvelope.keyId, TRUE, 1) EXCEPT !.keyId = <<"km">>],
    MalloryEnvelope(SeqKey(Alice), TRUE, 1) }

\* sendMessage is called
StartSend(t) ==
  /\ view = "chat"
  /\ tasks[t].kind = "idle"
  /\ \A u \in SendTasks : u < t => tasks[u].kind # "idle"
  /\ tasks' = [tasks EXCEPT ![t] =
                 [Idle EXCEPT !.kind = "send", !.pc = "initiate",
                              !.peers = {u \in TaskIds : Active(u)}]]
  /\ UNCHANGED <<store, messages, error, securityLog, completed, issued>>
  /\ UNCHANGED clientVars
  /\ UNCHANGED auth

\* sendMessage: await initiate(...), await encryptMessage(...)
SendInitiate(t) ==
  LET keyExchange == initiate(store[Bob], identity[Bob], Bob, Alice,
                              PublicKeyData(Alice), now, t)
      encrypted   == encryptMessage(keyExchange.sessionKey, "hello", now,
                                    <<"iv", t>>)
  IN  /\ tasks[t].kind = "send" /\ tasks[t].pc = "initiate"
      /\ store' = [store EXCEPT ![Bob] = keyExchange.db]
      /\ IF keyExchange.ok
           THEN /\ tasks' = [tasks EXCEPT ![t] =
                     [@ EXCEPT !.pc = "sequence",
                               !.sessionKey = keyExchange.sessionKey,
                               !.data = messageData(Bob, Alice, encrypted,
                                                    keyExchange, 0)]]
                /\ UNCHANGED error
           ELSE /\ tasks' = [tasks EXCEPT ![t] =
                     [@ EXCEPT !.pc = "done", !.outcome = "failed"]]
                /\ error' = IF tasks[t].unmounted THEN error
                                                  ELSE keyExchange.error
      /\ UNCHANGED <<messages, securityLog, completed, issued>>
      /\ UNCHANGED clientVars
      /\ UNCHANGED auth

\* sendMessage: await getNextSequenceNumber(selectedUser._id)
SendSequence(t) ==
  LET sequence == getNextSequenceNumber(store[Bob], Alice)
  IN  /\ tasks[t].kind = "send" /\ tasks[t].pc = "sequence"
      /\ store' = [store EXCEPT ![Bob] = sequence.db]
      /\ issued' = Append(issued, sequence.value)
      /\ tasks' = [tasks EXCEPT ![t] =
           [@ EXCEPT !.pc = "post", !.sequenceNumber = sequence.value,
                     !.data = [@ EXCEPT !.sequenceNumber = sequence.value]]]
      /\ UNCHANGED <<messages, error, securityLog, completed>>
      /\ UNCHANGED clientVars
      /\ UNCHANGED auth

\* sendMessage: await sendMessageAPI(messageData), setMessages, socket.emit
SendPost(t) ==
  /\ tasks[t].kind = "send" /\ tasks[t].pc = "post"
  /\ messages' = IF tasks[t].unmounted THEN messages
       ELSE Append(messages,
              [data |-> [senderId |-> Bob, recipientId |-> Alice],
               plaintext |-> "hello", decrypted |-> TRUE, error |-> ""])
  /\ tasks' = [tasks EXCEPT ![t] = [@ EXCEPT !.pc = "done",
                                            !.outcome = "sent"]]
  /\ auth' = Sent(auth, apiRequest(auth, "/messages"))
  /\ UNCHANGED <<store, error, securityLog, completed, issued>>
  /\ UNCHANGED clientVars

\* the socket's 'message' event calls handleIncomingMessage(data)
StartReceive(t, data) ==
  /\ view = "chat"
  /\ tasks[t].kind = "idle"
  /\ \A u \in RecvTasks : u < t => tasks[u].kind # "idle"
  /\ tasks' = [tasks EXCEPT ![t] =
                 [Idle EXCEPT !.kind = "receive", !.pc = "validate",
                              !.data = data,
                              !.peers = {u \in TaskIds : Active(u)}]]
  /\ UNCHANGED <<store, messages, error, securityLog, completed, issued>>
  /\ UNCHANGED clientVars
  /\ UNCHANGED auth

\* handleIncomingMessage: await validateSequenceNumber(...), then
\* await getUserPublicKey(data.senderId)
RecvValidate(t) ==
  LET data       == tasks[t].data
      seqChecked == data.sequenceNumber # 0
      validated  == validateSequenceNumber(store[Bob], data.senderId,
                                           data.sequenceNumber)
  IN  /\ tasks[t].kind = "receive" /\ tasks[t].pc = "validate"
      /\ IF seqChecked /\ ~validated.value
           THEN /\ securityLog' = securityLog \cup {"replay_attack_detected"}
                /\ error' = "Replay attack detected - message rejected"
                /\ tasks' = [tasks EXCEPT ![t] =
                     [@ EXCEPT !.pc = "done", !.outcome = "replay"]]
                /\ UNCHANGED store
           ELSE /\ store' = [store EXCEPT ![Bob] =
                     IF seqChecked THEN validated.db ELSE @]
                /\ tasks' = [tasks EXCEPT ![t] =
                     [@ EXCEPT !.pc = "lookup",
                               !.senderData = PublicKeyData(data.senderId)]]
                /\ UNCHANGED <<error, securityLog>>
      /\ UNCHANGED <<messages, completed, issued>>
      /\ UNCHANGED clientVars
      /\ UNCHANGED auth

\* handleIncomingMessage: let sessionKey = await getMessageKey(data.keyId)
RecvLookup(t) ==
  LET data      == tasks[t].data
      storedKey == getMessageKey(store[Bob], data.keyId)
  IN  /\ tasks[t].kind = "receive" /\ tasks[t].pc = "lookup"
      /\ tasks' = [tasks EXCEPT ![t] =
           [@ EXCEPT !.sessionKey = storedKey,
                     !.pc = IF storedKey = Null
                               /\ data.ephemeralPublicKey # Absent
                              THEN "complete" ELSE "decrypt"]]
      /\ UNCHANGED <<store, messages, error, securityLog, completed, issued>>
      /\ UNCHANGED clientVars
      /\ UNCHANGED auth

\* handleIncomingMessage: await complete(...), whose last await is
\* storeSessionKey; on failure the catch blocks log and show the failure
RecvComplete(t) ==
  LET data == tasks[t].data
      kx   == complete(store[Bob], identity[Bob], Bob, data.senderId,
                       tasks[t].senderData, data.ephemeralPublicKey,
                       data.headerData, data.signature, now)
  IN  /\ tasks[t].kind = "receive" /\ tasks[t].pc = "complete"
      /\ store' = [store EXCEPT ![Bob] = kx.db]
      /\ IF kx.ok
           THEN /\ tasks' = [tasks EXCEPT ![t] =
                     [@ EXCEPT !.pc = "decrypt", !.sessionKey = kx.sessionKey,
                               !.stored = Get(kx.db, kx.keyId)]]
                /\ securityLog' = securityLog \cup {"key_exchange_success"}
                /\ completed' = completed \cup
                     {[at |-> Bob, initiatorUserId |-> data.senderId,
                       initiatorPublicKeyData |-> tasks[t].senderData,
                       ephemeralPublicKey |-> data.ephemeralPublicKey,
                       headerData |-> data.headerData,
                       signature |-> data.signature, keyId |-> kx.keyId,
                       sessionKey |-> kx.sessionKey,
                       persistedKey |-> getSessionKey(kx.db, kx.keyId)]}
                /\ UNCHANGED messages
           ELSE /\ tasks' = [tasks EXCEPT ![t] =
                     [@ EXCEPT !.pc = "done", !.outcome = "failed"]]
                /\ securityLog' = securityLog
                     \cup {"key_exchange_failure", "decryption_failure"}
                /\ messages' = Append(messages,
                     [data |-> data, plaintext |-> "[Decryption failed]",
                      decrypted |-> FALSE, error |-> kx.error])
                /\ UNCHANGED completed
      /\ UNCHANGED <<error, issued>>
      /\ UNCHANGED clientVars
      /\ UNCHANGED auth

\* handleIncomingMessage: await decryptMessage(...), setMessages
RecvDecrypt(t) ==
  LET data  == tasks[t].data
      plain == decryptMessage(tasks[t].sessionKey, data.ciphertext, data.iv,
                              NoOptions, now)
  IN  /\ tasks[t].kind = "receive" /\ tasks[t].pc = "decrypt"
      /\ tasks' = [tasks EXCEPT ![t] =
           [@ EXCEPT !.pc = "done",
                     !.outcome = IF plain.ok THEN "accepted" ELSE "failed"]]
      /\ securityLog' = securityLog
           \cup (IF plain.ok THEN {} ELSE {"decryption_failure"})
      /\ messages' = Append(messages,
           IF plain.ok
             THEN [data |-> data, plaintext |-> plain.text,
                   decrypted |-> TRUE, error |-> ""]
             ELSE [data |-> data, plaintext |-> "[Decryption failed]",
                   decrypted |-> FALSE, error |-> plain.error])
      /\ UNCHANGED <<store, error, completed, issued>>
      /\ UNCHANGED clientVars
      /\ UNCHANGED auth

NextConcurrent ==
  \/ \E t \in SendTasks : StartSend(t)
  \/ \E t \in SendTasks : SendInitiate(t)
  \/ \E t \in SendTasks : SendSequence(t)
  \/ \E t \in SendTasks : SendPost(t)
  \/ \E t \in RecvTasks, data \in Inbound : StartReceive(t, data)
  \/ \E t \in RecvTasks : RecvValidate(t)
  \/ \E t \in RecvTasks : RecvLookup(t)
  \/ \E t \in RecvTasks : RecvComplete(t)
  \/ \E t \in RecvTasks : RecvDecrypt(t)

SpecConcurrent == Init /\ [][NextConcurrent]_vars

----------------------------------------------------------------------------
(* Bob logs out and in again while calls of sendMessage are in flight.     *)
(* A call that was started goes on after the Chat component is unmounted:  *)
(* its storage calls and its requests proceed, its state updates are lost. *)

\* Chat.handleLogout: await clearAllKeys(), which clears the stores 'keys'
\* and 'sessions' in one transaction, then App.handleLogout, which clears
\* localStorage and calls neither clearAuthToken nor setAuthToken
HandleLogout ==
  /\ view = "chat"
  /\ auth' = [localStorageClear(auth) EXCEPT
               !.loggedOut = @ \cup {auth.authToken}]
  /\ identity' = [identity EXCEPT ![Bob] = Null]
  /\ store' = [store EXCEPT ![Bob] = clearAllKeys(@)]
  /\ view' = "login"
  /\ messages' = << >>
  /\ error' = ""
  /\ tasks' = [t \in TaskIds |->
                 IF Active(t) THEN [tasks[t] EXCEPT !.unmounted = TRUE]
                              ELSE tasks[t]]
  /\ UNCHANGED <<now, ticks, securityLog, wire, sends, delivered, initiated,
                 completed, last, api, issued, cipher, puts, server>>

\* Login.handleSubmit and App.handleLoginSuccess: the login request, then
\* setAuthToken(response.token); no key is generated or looked for; the Chat
\* component mounts and its effect calls loadMessages
Login ==
  /\ view = "login"
  /\ server.gets < MaxLoad
  /\ view' = "chat"
  /\ auth' = [setAuthToken(Sent(auth, apiRequest(auth, "/auth/login")),
                           generateSessionToken(auth.logins + 1))
               EXCEPT !.logins = @ + 1]
  /\ \E order \in Orders(Len(GetMessages(Bob))) : LoadMessages(order)
  /\ error' = ""
  /\ UNCHANGED <<now, ticks, identity, wire, sends, delivered, initiated,
                 last, api, tasks, issued, cipher, puts>>

NextSession ==
  \/ \E t \in SendTasks : StartSend(t)
  \/ \E t \in SendTasks : SendInitiate(t)
  \/ \E t \in SendTasks : SendSequence(t)
  \/ \E t \in SendTasks : SendPost(t)
  \/ HandleLogout
  \/ Login

SpecSession == Init /\ [][NextSession]_vars

----------------------------------------------------------------------------
(* The storage functions called one at a time on Bob's store *)

GuardUsers == {Alice, Mallory}
GuardKeyIds == {generateKeyId(1), RecvSeqKey(Alice), SeqKey(Alice)}
GuardKey == deriveSharedKey(ECDHKeyPair(DHPrivateOf[Bob]).privateKey,
                            generateEphemeralKeyPair(1).publicKey,
                            ContextOf(Alice, Bob, 0))

GuardKeys == {GuardKey, AliceExchange.sessionKey}

CallValidateSequenceNumber(senderId, receivedSeq) ==
  LET r == validateSequenceNumber(store[Bob], senderId, receivedSeq)
  IN  /\ store' = [store EXCEPT ![Bob] = r.db]
      /\ api' = [fn |-> "validateSequenceNumber", id |-> senderId,
                 keyId |-> Absent, seq |-> receivedSeq, value |-> r.value]
      /\ UNCHANGED puts
      /\ UNCHANGED protocolVars

CallGetNextSequenceNumber(recipientId) ==
  LET r == getNextSequenceNumber(store[Bob], recipientId)
  IN  /\ r.value <= MaxSeq
      /\ store' = [store EXCEPT ![Bob] = r.db]
      /\ api' = [fn |-> "getNextSequenceNumber", id |-> recipientId,
                 keyId |-> Absent, seq |-> 0, value |-> r.value]
      /\ UNCHANGED puts
      /\ UNCHANGED protocolVars

CallStoreSessionKey(keyId, recipientId, key) ==
  /\ store' = [store EXCEPT ![Bob] =
                 storeSessionKey(@, keyId, recipientId, key,
                                 exportPublicKey(
                                   generateEphemeralKeyPair(1).publicKey),
                                 now)]
  /\ api' = [fn |-> "storeSessionKey", id |-> recipientId, keyId |-> keyId,
             seq |-> 0, value |-> Null]
  /\ puts' = Put(puts, [keyId |-> keyId, key |-> key])
  /\ UNCHANGED protocolVars

CallGetSessionKey(keyId) ==
  /\ api' = [fn |-> "getSessionKey", id |-> "", keyId |-> keyId, seq |-> 0,
             value |-> getSessionKey(store[Bob], keyId)]
  /\ UNCHANGED <<store, puts>>
  /\ UNCHANGED protocolVars

CallClearAllKeys ==
  /\ store' = [store EXCEPT ![Bob] = clearAllKeys(@)]
  /\ api' = [fn |-> "clearAllKeys", id |-> "", keyId |-> Absent, seq |-> 0,
             value |-> Null]
  /\ puts' = EmptyStore
  /\ UNCHANGED protocolVars

NextGuard ==
  \/ \E u \in GuardUsers, n \in 0..MaxSeq : CallValidateSequenceNumber(u, n)
  \/ \E u \in GuardUsers : CallGetNextSequenceNumber(u)
  \/ \E k \in GuardKeyIds, key \in GuardKeys : CallStoreSessionKey(k, Alice, key)
  \/ \E k \in GuardKeyIds : CallGetSessionKey(k)
  \/ CallClearAllKeys

SpecGuard == Init /\ [][NextGuard]_vars

----------------------------------------------------------------------------
(* The message and file cipher of utils/crypto.js called on its own: the   *)
(* sender encrypts on its clock, the recipient decrypts on its own clock.  *)

nonCipherVars == <<now, ticks, identity, store, messages, error, securityLog,
                   wire, sends, delivered, initiated, completed, last, api,
                   tasks, issued, puts, view, auth, server>>

CipherKeys == {GuardKey, AliceExchange.sessionKey}
CipherPlaintexts == {"hello", ""}
CipherFiles == {<< >>, <<1, 2>>}

EncryptTime == ClockSkew + 1
TwoHours == 2 * DefaultMaxAge
DecryptTimes ==
  {0, 1, EncryptTime, EncryptTime + ClockSkew, EncryptTime + ClockSkew + 1,
   EncryptTime + DefaultMaxAge, EncryptTime + DefaultMaxAge + 1,
   EncryptTime + TwoHours}

CipherOptions == {NoOptions, MaxAgeOption(0), MaxAgeOption(ClockSkew)}

\* what may happen to an envelope's ciphertext and iv fields on the way
Variants == {"as sent", "ciphertext altered", "iv altered"}

Made(kind, key, plaintext, time, encrypted) ==
  [kind |-> kind, key |-> key, plaintext |-> plaintext, time |-> time,
   ciphertext |-> encrypted.ciphertext, iv |-> encrypted.iv]

CallEncryptMessage(key, plaintext) ==
  LET iv        == getRandomValues(Len(cipher.made) + 1)
      encrypted == encryptMessage(key, plaintext, EncryptTime, iv)
  IN  /\ Len(cipher.made) < MaxEncrypt
      /\ cipher' = [cipher EXCEPT !.made =
           Append(@, Made("message", key, plaintext, EncryptTime, encrypted))]
      /\ UNCHANGED nonCipherVars

CallEncryptFile(key, fileBuffer) ==
  LET iv        == getRandomValues(Len(cipher.made) + 1)
      encrypted == encryptFile(key, fileBuffer, EncryptTime, iv)
  IN  /\ Len(cipher.made) < MaxEncrypt
      /\ cipher' = [cipher EXCEPT !.made =
           Append(@, Made("file", key, fileBuffer, EncryptTime, encrypted))]
      /\ UNCHANGED nonCipherVars

\* decryptMessage on the latest message encrypted, as sent or altered
CallDecryptMessage(key, variant, options, time) ==
  LET i  == Len(cipher.made)
      m  == cipher.made[i]
      ct == IF variant = "ciphertext altered"
              THEN [m.ciphertext EXCEPT !.tag = "flipped"] ELSE m.ciphertext
      iv == IF variant = "iv altered" THEN getRandomValues(0) ELSE m.iv
  IN  /\ i >= 1
      /\ m.kind = "message"
      /\ cipher' = [cipher EXCEPT !.last =
           [called |-> TRUE, of |-> i, key |-> key, variant |-> variant,
            options |-> options, time |-> time,
            result |-> decryptMessage(key, ct, iv, options, time)]]
      /\ UNCHANGED nonCipherVars

NextCipher ==
  \/ \E key \in CipherKeys, plaintext \in CipherPlaintexts :
       CallEncryptMessage(key, plaintext)
  \/ \E key \in CipherKeys, fileBuffer \in CipherFiles :
       CallEncryptFile(key, fileBuffer)
  \/ \E key \in CipherKeys, variant \in Variants, options \in CipherOptions,
        time \in DecryptTimes :
       CallDecryptMessage(key, variant, options, time)

SpecCipher == Init /\ [][NextCipher]_vars

\* decryptFile on the latest file encrypted, as sent or altered
CallDecryptFile(key, variant, options, time) ==
  LET i  == Len(cipher.made)
      m  == cipher.made[i]
      ct == IF variant = "ciphertext altered"
              THEN [m.ciphertext EXCEPT !.tag = "flipped"] ELSE m.ciphertext
      iv == IF variant = "iv altered" THEN getRandomValues(0) ELSE m.iv
  IN  /\ i >= 1
      /\ m.kind = "file"
      /\ cipher' = [cipher EXCEPT !.lastFile =
           [called |-> TRUE, of |-> i, key |-> key, variant |-> variant,
            options |-> options, time |-> time,
            result |-> decryptFile(key, ct, iv, options, time)]]
      /\ UNCHANGED nonCipherVars

NextFile ==
  \/ \E key \in CipherKeys, fileBuffer \in CipherFiles :
       CallEncryptFile(key, fileBuffer)
  \/ \E key \in CipherKeys, variant \in Variants, options \in CipherOptions,
        time \in DecryptTimes :
       CallDecryptFile(key, variant, options, time)

SpecFile == Init /\ [][NextFile]_vars

----------------------------------------------------------------------------
(* decryptMessage given payloads of the format without the wrapper, next   *)
(* to wrapped ones, on either kind of engine.                               *)

\* the payloads a key holder may have encrypted before the wrapper existed:
\* bare texts, a JSON value that is no object, objects that lack a field
LegacyPayloads ==
  {RawPayload("hello"), RawPayload("replay attack"), <<"null">>,
   <<"{", "text", "hello", "}">>, <<"{", "timestamp", 0, "}">>}

\* the encryptMessage of before the wrapper: AES-GCM over the bare text under
\* a fresh IV
CallEncryptLegacy(key, payloadStr) ==
  LET iv        == getRandomValues(Len(cipher.made) + 1)
      encrypted == [ciphertext |-> AesGcmEncrypt(key, iv, payloadStr),
                    iv |-> iv]
  IN  /\ Len(cipher.made) < MaxEncrypt
      /\ cipher' = [cipher EXCEPT !.made =
           Append(@, Made("legacy", key, payloadStr, EncryptTime, encrypted))]
      /\ UNCHANGED nonCipherVars

\* decryptMessage on the latest payload encrypted, wrapped or not
CallDecryptMessageOn(quotesSource, key, options, time) ==
  LET i == Len(cipher.made)
      m == cipher.made[i]
  IN  /\ i >= 1
      /\ m.kind \in {"message", "legacy"}
      /\ cipher' = [cipher EXCEPT !.last =
           [called |-> TRUE, of |-> i, key |-> key, variant |-> "as sent",
            options |-> options, time |-> time,
            result |-> decryptMessageOn(quotesSource, key, m.ciphertext,
                                        m.iv, options, time)]]
      /\ UNCHANGED nonCipherVars

NextLegacy ==
  \/ \E key \in CipherKeys, plaintext \in CipherPlaintexts :
       CallEncryptMessage(key, plaintext)
  \/ \E key \in CipherKeys, payloadStr \in LegacyPayloads :
       CallEncryptLegacy(key, payloadStr)
  \/ \E quotesSource \in BOOLEAN, key \in CipherKeys,
        options \in CipherOptions, time \in DecryptTimes :
       CallDecryptMessageOn(quotesSource, key, options, time)

SpecLegacy == Init /\ [][NextLegacy]_vars

----------------------------------------------------------------------------
(* Properties *)

LastAccepted(db, senderId) == SequenceNumberOf(Get(db, RecvSeqKey(senderId)))

IsSessionRecord(rec) == "key" \in DOMAIN rec

\* the envelope of an Initiate arrived unmodified and the directory answered
\* with the initiator's registered keys
GenuineExchange(i, c) ==
  /\ c.at = i.to
  /\ i.recipientPublicKeyData = PublicKeyData(i.to)
  /\ c.initiatorUserId = i.by
  /\ c.initiatorPublicKeyData = PublicKeyData(i.by)
  /\ c.ephemeralPublicKey = i.ephemeralPublicKey
  /\ c.headerData = i.headerData
  /\ c.signature = i.signature

\* C1: when Complete at the responder runs on the unmodified ephemeral key,
\* header and signature of an Initiate made with the responder's genuine
\* agreement key, and with the initiator's genuine signing key, the session
\* key the responder persists under the header's sessionId equals the key the
\* initiator persisted under that sessionId.
KeyAgreementSymmetry ==
  \A i \in initiated, c \in completed :
    GenuineExchange(i, c) =>
      /\ c.keyId = i.keyId
      /\ c.persistedKey # Null
      /\ c.persistedKey = i.persistedKey
      /\ c.sessionKey = i.sessionKey

KeyAgreementSymmetryWitness ==
  \E i \in initiated, c \in completed :
    /\ GenuineExchange(i, c)
    /\ getSessionKey(store[Bob], i.keyId) = getSessionKey(store[Alice], i.keyId)
    /\ getSessionKey(store[Bob], i.keyId) # Null

\* C2: Complete never derives or persists a session key from an ephemeral
\* public key other than the one in the header whose signature it verified.
CompleteUsesSignedEphemeralKey ==
  \A c \in completed :
    c.ephemeralPublicKey = ParseHeader(c.headerData).ephemeralPublicKey

SignatureValid(h) ==
  verifySignature(importPublicKey(h.publicKeyData.signing, "ECDSA"),
                  h.data.headerData, h.data.signature)

SignatureVerifiedBeforeTrust ==
  last.outcome = "accepted" => last.kxCalled /\ last.kxOk

\* C5: acceptSequence(remotePartyId, n) returns true exactly when n is greater
\* than the stored lastAccepted of that party (0 when there is none), and on
\* true sets lastAccepted to n.
AcceptSequenceContract ==
  [][ api'.fn = "validateSequenceNumber" =>
        /\ api'.value = (api'.seq > LastAccepted(store[Bob], api'.id))
        /\ api'.value => LastAccepted(store'[Bob], api'.id) = api'.seq ]_vars

\* the same number presented again after it was accepted is refused
AcceptSequenceContractWitness ==
  /\ api.fn = "validateSequenceNumber"
  /\ api.value = FALSE
  /\ api.seq > 0
  /\ api.seq = LastAccepted(store[Bob], api.id)

\* C6: when acceptSequence rejects, the stored sequence state of that remote
\* party and of every other party is left unchanged.
RejectLeavesSequenceState ==
  [][ (api'.fn = "validateSequenceNumber" /\ api'.value = FALSE) =>
        \A u \in Users :
          /\ Get(store'[Bob], RecvSeqKey(u)) = Get(store[Bob], RecvSeqKey(u))
          /\ Get(store'[Bob], SeqKey(u)) = Get(store[Bob], SeqKey(u)) ]_vars

\* a lower number than the last accepted one was refused
RejectLeavesSequenceStateWitness ==
  /\ api.fn = "validateSequenceNumber"
  /\ api.value = FALSE
  /\ api.seq > 0
  /\ api.seq < LastAccepted(store[Bob], api.id)
  /\ \E u \in Users \ {api.id} : LastAccepted(store[Bob], u) > 0

Accepted(i) == messages[i].decrypted

\* C7: the sequence numbers of the envelopes a recipient accepts from one
\* sender are strictly increasing.
AcceptedSequenceIncreasing ==
  \A i, j \in DOMAIN messages :
    ( /\ i < j
      /\ Accepted(i) /\ Accepted(j)
      /\ messages[i].data.senderId = messages[j].data.senderId )
    => messages[i].data.sequenceNumber < messages[j].data.sequenceNumber

\* C8: when the channel delivers the identical envelope (same sender, same
\* sequenceNumber) a second time after the first was accepted, the recipient
\* does not accept and display it again.
IdenticalEnvelopeRejected ==
  \A i, j \in DOMAIN messages :
    ( /\ i < j
      /\ Accepted(i) /\ Accepted(j)
      /\ messages[i].data.sequenceNumber >= 1 )
    => messages[i].data # messages[j].data

\* C9: every accepted inbound message has passed both the sequence-number
\* check and the embedded-timestamp freshness check.
AcceptedPassedBothChecks ==
  last.outcome = "accepted" => last.seqChecked /\ last.freshness

\* C10: the sequence state of a remote party changes only when an envelope
\* from that party is accepted.
SequenceStateOnlyOnAcceptance ==
  [][ \A u \in Users :
        LastAccepted(store'[Bob], u) # LastAccepted(store[Bob], u) =>
          last'.outcome = "accepted" /\ last'.data.senderId = u ]_vars

\* C11: for the remote party, the first number getNextSequenceNumber returns
\* to sendMessage is 1 and every later one is exactly one more than the one
\* returned before it.
SendSequenceContinues ==
  \A i \in DOMAIN issued :
    issued[i] = IF i = 1 THEN 1 ELSE issued[i - 1] + 1

Concurrent(t, u) == u \in tasks[t].peers \/ t \in tasks[u].peers

\* C12: two sendMessage calls to the same remote party that are in flight at
\* the same time never obtain the same sequence number.
ConcurrentSendsDistinct ==
  \A t, u \in SendTasks :
    ( /\ t # u
      /\ Concurrent(t, u)
      /\ tasks[t].sequenceNumber # 0
      /\ tasks[u].sequenceNumber # 0 )
    => tasks[t].sequenceNumber # tasks[u].sequenceNumber

\* C18: once a session record exists under a sessionId, no later step changes
\* the symmetric key or the remote party stored under that sessionId.
SessionRecordNeverUpdated ==
  [][ \A k \in DOMAIN store[Bob] :
        ( /\ IsSessionRecord(store[Bob][k])
          /\ k \in DOMAIN store'[Bob]
          /\ IsSessionRecord(store'[Bob][k]) )
        => /\ store'[Bob][k].key = store[Bob][k].key
           /\ store'[Bob][k].recipientId = store[Bob][k].recipientId ]_vars

\* C19: of the handleIncomingMessage calls in flight for envelopes that carry
\* the same sessionId, at most one derives and stores the session key.
SessionStoredOncePerSessionId ==
  \A t, u \in RecvTasks :
    ( /\ t # u
      /\ tasks[t].stored # Null
      /\ tasks[u].stored # Null )
    => tasks[t].data.keyId # tasks[u].data.keyId

LastMade == cipher.made[cipher.last.of]

\* the latest decryption was given the envelope as sent and the key it was
\* encrypted under
Authentic ==
  /\ cipher.last.called
  /\ cipher.last.variant = "as sent"
  /\ cipher.last.key = LastMade.key

\* now - timestampMs of the latest decryption
Age == cipher.last.time - LastMade.time

\* maxAgeMs as the caller gave it
GivenMaxAge ==
  IF "maxAge" \in DOMAIN cipher.last.options
    THEN cipher.last.options.maxAge ELSE DefaultMaxAge

\* C13: decrypting the output of encrypt(K, P) with K within the staleness
\* window returns exactly P.
RoundTrip ==
  (Authentic /\ -ClockSkew <= Age /\ Age <= GivenMaxAge) =>
    /\ cipher.last.result.ok
    /\ cipher.last.result.text = LastMade.plaintext

RoundTripWitness ==
  /\ Authentic
  /\ cipher.last.options = NoOptions
  /\ Age = DefaultMaxAge
  /\ LastMade.plaintext = "hello"
  /\ cipher.last.result.ok
  /\ cipher.last.result.text = "hello"

PositiveMaxAge ==
  IF "maxAge" \in DOMAIN cipher.last.options
       /\ cipher.last.options.maxAge > 0
    THEN cipher.last.options.maxAge ELSE DefaultMaxAge

TamperRejected ==
  ( /\ cipher.last.called
    /\ \/ cipher.last.variant # "as sent"
       \/ cipher.last.key # LastMade.key )
  => /\ ~cipher.last.result.ok
     /\ cipher.last.result.error = OperationError
     /\ cipher.last.result.text = ""

TamperRejectedWitness ==
  /\ cipher.last.called
  /\ cipher.last.variant = "ciphertext altered"
  /\ cipher.last.key = LastMade.key
  /\ Age = 0
  /\ ~cipher.last.result.ok

\* C16: no two encrypt calls (message or file) under the same session key use
\* the same IV, so their (ciphertext, iv) pairs differ even for the same
\* plaintext.
FreshIvPerEncrypt ==
  \A i, j \in DOMAIN cipher.made :
    (i # j /\ cipher.made[i].key = cipher.made[j].key) =>
      /\ cipher.made[i].iv # cipher.made[j].iv
      /\ <<cipher.made[i].ciphertext, cipher.made[i].iv>>
           # <<cipher.made[j].ciphertext, cipher.made[j].iv>>

FreshIvPerEncryptWitness ==
  \E i, j \in DOMAIN cipher.made :
    /\ i # j
    /\ cipher.made[i].kind = "message" /\ cipher.made[j].kind = "message"
    /\ cipher.made[i].key = cipher.made[j].key
    /\ cipher.made[i].plaintext = cipher.made[j].plaintext
    /\ cipher.made[i].iv # cipher.made[j].iv

ExchangeMaterial ==
  {"ciphertext", "iv", "keyId", "ephemeralPublicKey", "headerData",
   "signature", "sequenceNumber"}
Addressing == {"senderId", "recipientId"}
FileMetadata == {"filename", "mimeType", "size", "chunks"}

PrivateKeysOf(c) ==
  {identity[c].signingPrivateKey, identity[c].dhPrivateKey}
    \cup {generateEphemeralKeyPair(n).privateKey : n \in DOMAIN EphemeralPool}

\* C17: nothing Alice's client hands to the server or the socket carries a
\* session key, a private key or the plaintext: beside the addressing and the
\* file metadata, a request has only ciphertext, iv, sessionId, ephemeral
\* public key, header, signature and sequence number, the ciphertext being
\* the AES-GCM output under the session key and the ephemeral key being the
\* exported public half.
NoSecretsOnWire ==
  \A e \in wire :
    /\ DOMAIN e \subseteq ExchangeMaterial \cup Addressing \cup FileMetadata
    /\ "tag" \in DOMAIN e.ciphertext
    /\ \E i \in initiated :
         i.keyId = e.keyId /\ e.ciphertext.key = i.sessionKey
    /\ \A f \in {"ciphertext", "signature"} :
         /\ \A i \in initiated : e[f] # i.sessionKey
         /\ e[f] \notin PrivateKeysOf(Alice)
    /\ \E n \in DOMAIN EphemeralPool :
         e.ephemeralPublicKey =
           exportPublicKey(generateEphemeralKeyPair(n).publicKey)
    /\ ParseHeader(e.headerData).ephemeralPublicKey = e.ephemeralPublicKey
    /\ \A f \in DOMAIN e \cap (Addressing \cup {"filename", "mimeType"}) :
         e[f] \notin Plaintexts

NoSecretsOnWireWitness ==
  /\ \E e \in wire : "sequenceNumber" \in DOMAIN e
  /\ \E e \in wire : "filename" \in DOMAIN e /\ e.size > 0

\* the key last given to storeSessionKey for keyId, null when there was none
LastPut(keyId) == IF keyId \in DOMAIN puts THEN puts[keyId].key ELSE Null

\* C20: getSessionKey(keyId) returns the key last stored for that keyId and
\* null when none was stored; after clearAllKeys it returns null for every
\* keyId and every sequence counter reads 0.
StoreRoundTrip ==
  [][ /\ api'.fn = "getSessionKey" => api'.value = LastPut(api'.keyId)
      /\ api'.fn = "clearAllKeys" =>
           /\ \A k \in GuardKeyIds : getSessionKey(store'[Bob], k) = Null
           /\ \A u \in Users :
                /\ SequenceNumberOf(Get(store'[Bob], SeqKey(u))) = 0
                /\ LastAccepted(store'[Bob], u) = 0 ]_vars

LastFileMade == cipher.made[cipher.lastFile.of]

\* the latest file decryption was given the upload as sent and the key it was
\* encrypted under
AuthenticFile ==
  /\ cipher.lastFile.called
  /\ cipher.lastFile.variant = "as sent"
  /\ cipher.lastFile.key = LastFileMade.key

FileAge == cipher.lastFile.time - LastFileMade.time

FileGivenMaxAge ==
  IF "maxAge" \in DOMAIN cipher.lastFile.options
    THEN cipher.lastFile.options.maxAge ELSE DefaultMaxAge

\* what decryptMessage answers for a message encrypted and decrypted under the
\* same key, options and clock readings as the latest file decryption
MessageCounterpart ==
  LET iv        == getRandomValues(cipher.lastFile.of)
      encrypted == encryptMessage(cipher.lastFile.key, "hello",
                                  LastFileMade.time, iv)
  IN  decryptMessage(cipher.lastFile.key, encrypted.ciphertext, encrypted.iv,
                     cipher.lastFile.options, cipher.lastFile.time)

\* C21: decryptFile(K, encryptFile(K, F)) within the staleness window returns
\* exactly F, the 8 timestamp bytes removed, also for the empty file; a file
\* stamped more than maxAge in the past is rejected as too old and one stamped
\* more than 60000 ms ahead as in the future, in exactly the cases in which
\* decryptMessage rejects a message of the same age.
FileRoundTrip ==
  AuthenticFile =>
    /\ (-ClockSkew <= FileAge /\ FileAge <= FileGivenMaxAge) =>
         /\ cipher.lastFile.result.ok
         /\ cipher.lastFile.result.data = LastFileMade.plaintext
    /\ cipher.lastFile.result.ok = MessageCounterpart.ok
    /\ cipher.lastFile.result.error = FileTooOld
         <=> MessageCounterpart.error = TooOld
    /\ cipher.lastFile.result.error = FileInTheFuture
         <=> MessageCounterpart.error = InTheFuture
    /\ FileAge > DefaultMaxAge => cipher.lastFile.result.error = FileTooOld
    /\ (FileGivenMaxAge > 0 /\ FileAge > FileGivenMaxAge) =>
         cipher.lastFile.result.error = FileTooOld
    /\ -FileAge > ClockSkew => cipher.lastFile.result.error = FileInTheFuture

\* the empty file, decrypted at the far end of the default window
FileRoundTripWitness ==
  /\ AuthenticFile
  /\ cipher.lastFile.options = NoOptions
  /\ FileAge = DefaultMaxAge
  /\ LastFileMade.plaintext = << >>
  /\ cipher.lastFile.result.ok
  /\ cipher.lastFile.result.data = << >>

\* C24: when the recipient detects a replay, the session key stored under
\* that envelope's sessionId is invalidated: from then on no key is found
\* under it.
ReplayInvalidatesSession ==
  [][ (delivered' # delivered /\ last'.outcome = "replay") =>
        getSessionKey(store'[Bob], last'.data.keyId) = Null ]_vars

\* C25: when Complete fails with InvalidSignature while an inbound envelope is
\* handled, the audit trail holds an event of type invalid_signature, saved
\* with severity CRITICAL, and the message is not accepted.
InvalidSignatureAudited ==
  (last.kxCalled /\ last.kxError = InvalidSignature) =>
    /\ last.outcome # "accepted"
    /\ "invalid_signature" \in securityLog
    /\ \E eventType \in securityLog :
         eventType = "invalid_signature" /\ SeverityOf(eventType) = "CRITICAL"

\* an envelope without its sequenceNumber field
WithoutSequenceNumber(data) ==
  [f \in DOMAIN data \ {"sequenceNumber"} |-> data[f]]

\* C30: once an envelope that Alice sent has been accepted, no copy of it is
\* accepted again, whatever sequenceNumber (the same, a higher one, zero or
\* none) the copy carries.
NoReacceptance ==
  \A i, j \in DOMAIN messages :
    ( /\ i < j
      /\ Accepted(i) /\ Accepted(j)
      /\ messages[i].data \in wire )
    => WithoutSequenceNumber(messages[i].data)
         # WithoutSequenceNumber(messages[j].data)

\* `${initiatorUserId}||${recipientUserId}||${Date.now()}`: the parties named
ContextInitiator(context) == context[1]
ContextResponder(context) == context[3]

\* C27: for every session record Complete persists, the context the key was
\* derived with is the context of the signed header, and that context names
\* the claimed sender, under whose id the record is stored, as initiator and
\* the local party as responder.
SessionBoundToParties ==
  \A c \in completed :
    LET context == ParseHeader(c.headerData).context
    IN  /\ c.sessionKey.info = context
        /\ ContextInitiator(context) = c.initiatorUserId
        /\ ContextResponder(context) = c.at

FromHistory(i) == "_id" \in DOMAIN messages[i].data

\* C22: when the same envelope (same sender, same sequenceNumber) is stored
\* twice on the server, the history the recipient loads does not present
\* both copies as decrypted messages.
HistoryDuplicateNotPresented ==
  \A i, j \in DOMAIN messages :
    ( /\ i < j
      /\ FromHistory(i) /\ FromHistory(j)
      /\ Accepted(i) /\ Accepted(j)
      /\ messages[i].data.senderId = messages[j].data.senderId )
    => messages[i].data.sequenceNumber # messages[j].data.sequenceNumber

\* the sequence number of the latest request is not greater than that of a
\* message already stored from its sender to its recipient
OutOfOrder(srv, userId, body) ==
  \E i \in DOMAIN srv.messages :
    /\ srv.messages[i].senderId = userId
    /\ srv.messages[i].recipientId = body.recipientId
    /\ OptionalField(body, "sequenceNumber", 0)
         <= srv.messages[i].sequenceNumber

\* C23: a message posted or emitted to the server whose sequenceNumber is not
\* greater than that of a message already stored from the same sender to the
\* same recipient is rejected: it is neither stored nor relayed.
ServerValidatesOrder ==
  [][ ( /\ server' # server
        /\ server'.op \in {"post", "relay"}
        /\ OutOfOrder(server, server'.userId, server'.body) )
      => /\ server'.messages = server.messages
         /\ server'.relayed = server.relayed
         /\ server'.status # 201 ]_vars

\* C26: an Initiate that fails leaves the Session Store as it was: the
\* session record is persisted only once the header is built and signed.
FailedInitiateLeavesStore ==
  [][ \A t \in SendTasks :
        ( /\ tasks[t].pc = "initiate"
          /\ tasks'[t].pc = "done"
          /\ tasks'[t].outcome = "failed" )
        => store'[Bob] = store[Bob] ]_vars

\* C29: once the logout has completed, and until the next login, the local
\* store holds no identity key pair, no session record and no sequence
\* counter.
LogoutDestroysKeys ==
  view = "login" =>
    /\ getIdentitySigningKey(identity[Bob]) = Null
    /\ getIdentityDHKey(identity[Bob]) = Null
    /\ store[Bob] = EmptyStore

\* how often the envelope e has been accepted and shown
TimesAccepted(msgs, e) ==
  Cardinality({i \in DOMAIN msgs : msgs[i].decrypted /\ msgs[i].data = e})

\* the envelope was sent no longer ago than the staleness window
SentRecently(e, time) ==
  time - ParseHeader(e.headerData).timestamp <= DefaultMaxAge

\* C28: over a channel that delivers at least once and in any order, every
\* fresh envelope that Alice sent and that is delivered unmodified has been
\* accepted exactly once when its handling ends (at this delivery or at an
\* earlier one), also when envelopes arrive in another order than sent.
DeliveredAcceptedOnce ==
  [][ ( /\ delivered' # delivered
        /\ last'.data \in wire
        /\ SentRecently(last'.data, now) )
      => TimesAccepted(messages', last'.data) = 1 ]_vars


\* the payload is a {text, timestamp} wrapper
IsWrapper(payloadStr) ==
  /\ IsJsonObject(payloadStr)
  /\ "text" \in JsonKeys(payloadStr)
  /\ "timestamp" \in JsonKeys(payloadStr)

\* C31: when the authenticated payload is no {text, timestamp} wrapper,
\* decrypt returns the decrypted text unchanged; when it is a wrapper outside
\* the freshness window, decrypt raises the staleness or future-timestamp
\* error and returns nothing.
LegacyFallback ==
  Authentic =>
    /\ ( /\ LastMade.kind = "legacy"
         /\ ~IsWrapper(LastMade.plaintext) )
       => ( /\ cipher.last.result.ok
            /\ cipher.last.result.text = LastMade.plaintext )
    /\ ( /\ LastMade.kind = "message"
         /\ (Age > MaxAgeOf(cipher.last.options) \/ Age < -ClockSkew) )
       => ( /\ ~cipher.last.result.ok
            /\ cipher.last.result.error \in {TooOld, InTheFuture} )


\* the session records a store holds
SessionRecordsOf(db) ==
  {db[k] : k \in {j \in DOMAIN db : IsSessionRecord(db[j])}}

SessionRecordFields ==
  {"keyId", "recipientId", "key", "ephemeralPublicKey", "createdAt"}

EnvelopeFields ==
  {"senderId", "recipientId", "ciphertext", "iv", "keyId",
   "ephemeralPublicKey", "headerData", "signature", "sequenceNumber"}

InitiateResultFields ==
  {"keyId", "ephemeralPublicKey", "signature", "headerData", "sessionKey",
   "context"}

\* what the next initiateKeyExchange of Alice returns to its caller
NextInitiateResult ==
  initiateKeyExchange(store[Alice], identity[Alice], Alice, Bob,
                      PublicKeyData(Bob), now, sends + 1)

\* C32: every Initiate of Alice has generated an ephemeral key pair and a
\* sessionId of its own (one session record per Initiate, no two with the
\* same ephemeral public key); the session record, the signed header and the
\* envelope of an Initiate hold the public half of its pair and no field that
\* holds the private half, and neither does what Initiate returns.
FreshEphemeralPerInitiate ==
  LET recs == SessionRecordsOf(store[Alice])
  IN  /\ Cardinality(recs) = sends
      /\ Cardinality({r.ephemeralPublicKey : r \in recs}) = sends
      /\ \A n \in 1..sends :
           LET pair == generateEphemeralKeyPair(n)
               pub  == exportPublicKey(pair.publicKey)
               rec  == Get(store[Alice], generateKeyId(n))
           IN  /\ DOMAIN rec = SessionRecordFields
               /\ rec.ephemeralPublicKey = pub
               /\ rec.key # pair.privateKey
               /\ \E e \in wire : e.keyId = generateKeyId(n)
               /\ \A e \in wire :
                    e.keyId = generateKeyId(n) =>
                      /\ DOMAIN e = EnvelopeFields
                      /\ e.ephemeralPublicKey = pub
                      /\ ParseHeader(e.headerData).ephemeralPublicKey = pub
      /\ sends < MaxOrdered =>
           /\ DOMAIN NextInitiateResult \ {"ok", "error", "db"}
                = InitiateResultFields
           /\ NextInitiateResult.ephemeralPublicKey =
                exportPublicKey(generateEphemeralKeyPair(sends + 1).publicKey)
           /\ NextInitiateResult.sessionKey #
                generateEphemeralKeyPair(sends + 1).privateKey

FreshEphemeralPerInitiateWitness ==
  /\ sends >= 2
  /\ Cardinality(SessionRecordsOf(store[Alice])) >= 2
  /\ Cardinality(wire) >= 2


\* the createSession that issued the token of the latest verifySession
Granted == server.granted[server.verify.token]

\* C33: verifySession answers with the user id of a token exactly when
\* createSession issued the token and at most 24 hours have passed since;
\* for an unknown or an older token it answers null, and after the check of
\* an older token the session store no longer holds that token.
SessionValidFor24Hours ==
  server.verify.called =>
    IF /\ server.verify.token \in DOMAIN server.granted
       /\ server.verify.time - Granted.createdAt <= SessionLifetime
      THEN server.verify.userId = Granted.userId
      ELSE /\ server.verify.userId = NoUserId
           /\ server.verify.token \notin DOMAIN server.sessions

SessionValidFor24HoursWitness ==
  /\ server.verify.called
  /\ server.verify.token \in DOMAIN server.granted
  /\ server.verify.time - Granted.createdAt = SessionLifetime
  /\ server.verify.userId = Granted.userId

\* an expired token has been checked and removed
SessionExpiredWitness ==
  /\ server.verify.called
  /\ server.verify.token \in DOMAIN server.granted
  /\ server.verify.time - Granted.createdAt > SessionLifetime


\* the number getNextSequenceNumber issued last for the recipient
SendCounter(db, recipientId) == SequenceNumberOf(Get(db, SeqKey(recipientId)))

\* every record of the store but the one under key k is as it was
OnlyWritten(k) ==
  /\ (DOMAIN store[Bob]) \ {k} = (DOMAIN store'[Bob]) \ {k}
  /\ \A j \in (DOMAIN store[Bob]) \ {k} : store'[Bob][j] = store[Bob][j]

\* C34: getNextSequenceNumber(X) raises the send counter of X by one and
\* leaves the send counter of every other party and the last accepted number
\* of every party as they were; validateSequenceNumber(Y, n) leaves every
\* send counter and the last accepted number of every other party as they
\* were; each writes no other record of the store.
CountersIndependent ==
  [][ /\ api'.fn = "getNextSequenceNumber" =>
           /\ SendCounter(store'[Bob], api'.id)
                = SendCounter(store[Bob], api'.id) + 1
           /\ \A u \in GuardUsers \ {api'.id} :
                SendCounter(store'[Bob], u) = SendCounter(store[Bob], u)
           /\ \A u \in GuardUsers :
                LastAccepted(store'[Bob], u) = LastAccepted(store[Bob], u)
           /\ OnlyWritten(<<"seq_", api'.id>>)
      /\ api'.fn = "validateSequenceNumber" =>
           /\ \A u \in GuardUsers :
                SendCounter(store'[Bob], u) = SendCounter(store[Bob], u)
           /\ \A u \in GuardUsers \ {api'.id} :
                LastAccepted(store'[Bob], u) = LastAccepted(store[Bob], u)
           /\ OnlyWritten(<<"recv_seq_", api'.id>>) ]_vars

\* a number of Alice was accepted while all four counters differ
CountersIndependentWitness ==
  /\ api.fn = "validateSequenceNumber"
  /\ api.id = Alice
  /\ api.value
  /\ LastAccepted(store[Bob], Alice) = 2
  /\ SendCounter(store[Bob], Alice) = 1
  /\ SendCounter(store[Bob], Mallory) = 2
  /\ LastAccepted(store[Bob], Mallory) = 1


\* C35: a handling at Bob that completes a key exchange and stores its
\* session record lowers no last accepted number and changes no send counter
\* of Bob's store, and an Initiate of Alice lowers no counter of hers.
SessionRecordsSpareCounters ==
  [][ /\ (delivered' # delivered /\ last'.kxOk) =>
           \A u \in Users :
             /\ LastAccepted(store'[Bob], u) >= LastAccepted(store[Bob], u)
             /\ SendCounter(store'[Bob], u) = SendCounter(store[Bob], u)
      /\ sends' # sends =>
           \A u \in Users :
             /\ LastAccepted(store'[Alice], u) = LastAccepted(store[Alice], u)
             /\ SendCounter(store'[Alice], u) >= SendCounter(store[Alice], u)
    ]_vars


\* C36: the sequence numbers Bob issues for Alice strictly increase over the
\* life of his account, across logout and login: every number issued is
\* greater than every number issued before it, so that Alice, who keeps the
\* last number she accepted, refuses none of them.
SequenceSurvivesLogout ==
  \A i, j \in DOMAIN issued : i < j => issued[i] < issued[j]


\* the header timestamps tried: the present, the past and beyond the window
\* that decryptMessage allows a message
HeaderTimestamps == {0, 1, DefaultMaxAge + 1, 2 * DefaultMaxAge + 2}

\* the envelope's exchange material had its signer stamped the header at ts
Retimed(data, ts) ==
  LET headerData == StringifyHeader(
                      [ParseHeader(data.headerData) EXCEPT !.timestamp = ts])
  IN  [headerData |-> headerData,
       signature |-> [data.signature EXCEPT !.data = headerData]]

\* C37: whenever handleIncomingMessage calls Complete on a header whose
\* signature verifies, Complete succeeds and the session record is stored,
\* however long ago the header was stamped; and Complete on the same material
\* stamped at any other time succeeds with the same session key.
HeaderAgeIgnored ==
  [][ (delivered' # delivered /\ last'.kxCalled /\ SignatureValid(last')) =>
        /\ last'.kxOk
        /\ getSessionKey(store'[Bob],
                         ParseHeader(last'.data.headerData).keyId)
             = last'.kxSessionKey
        /\ \A ts \in HeaderTimestamps :
             LET data == last'.data
                 r == completeKeyExchange(store[Bob], identity[Bob], Bob,
                        data.senderId, last'.publicKeyData,
                        data.ephemeralPublicKey, Retimed(data, ts).headerData,
                        Retimed(data, ts).signature, now)
             IN  /\ r.ok
                 /\ r.sessionKey = last'.kxSessionKey ]_vars

\* a header stamped more than an hour ago was accepted
HeaderAgeIgnoredWitness ==
  /\ last.handled
  /\ last.kxCalled
  /\ last.kxOk
  /\ last.data \in wire
  /\ now - ParseHeader(last.data.headerData).timestamp > DefaultMaxAge
  /\ getSessionKey(store[Bob], last.data.keyId) = last.kxSessionKey


\* C38: while the login view is shown after a logout, getAuthToken returns
\* null; and no request is sent with the Authorization header of a session
\* the user has logged out of.
LogoutClearsAuthToken ==
  /\ view = "login" => getAuthToken(auth) = NoToken
  /\ \A r \in auth.sent : ~r.stale

====
